---- MODULE Spec2Model ----
(***************************************************************************)
(* CloudMouse firmware core: Event Bus, Input Classifier (encoder), LED    *)
(* animation scheduler, Network Manager and System Coordinator.            *)
(*                                                                         *)
(* Each subsystem is modelled from its C++ source and composed into the    *)
(* specifications at the end of the module:                                *)
(*   SpecBus  - the Event Bus driven by arbitrary callers                  *)
(*   SpecEnc  - the encoder API under any interleaving of update/consume   *)
(*   SpecLed  - the LED animation task and its command channel             *)
(*   SpecNet  - the WiFiManager public API and stack notifications         *)
(*   SpecUI   - the rendering loop feeding the UI->Core channel            *)
(*   Spec     - the coordinator composed with the Network Manager          *)
(***************************************************************************)
EXTENDS Integers, Sequences, FiniteSets, TLC

(***************************************************************************)
(* Bounds of the model (not program constants).                            *)
(***************************************************************************)
\* marked (distinguishable) events that may be in flight on the bus at once
MaxMarked == 1
\* presses of the button in one run of the encoder specifications
MaxPresses == 2
\* the clock of the encoder specifications stops advancing here (ms)
EncMaxTime == 3600
\* the clock of the LED specification stops advancing here (ms)
LedMaxTime == 7000
\* the animation task ticks every 100 ms until this time, more coarsely after
LedFineUntil == 2400
\* the clock of the network specification stops advancing here (ms)
NetMaxTime == 16000
\* connection attempts started in one run of the network specification
MaxConnects == 2
\* the clock of the composed specification stops advancing here (ms)
CoreMaxTime == 19000
\* provisioning requests handled in one run
MaxSubmits == 2
\* the clock of the rendering specification stops advancing here (ms)
UiMaxTime == 3800
\* detents the user turns the knob in one run
MaxTurns == 1
\* commands the other contexts send to the LED scheduler in one run
MaxLedCmds == 2
\* turns of the knob in one run of the rotation decoder alone
MaxRotations == 3
\* depth to which batch sessions of one PreferencesManager are nested
MaxBatchDepth == 2
\* iterations of the rendering loop in one run of the forwarding specification
MaxFrames == 2
\* the clock of the idle-window specification stops advancing here (ms)
IdleMaxTime == 10200
\* commands sent to the LED scheduler in one run of the idle-window specification
MaxIdleCmds == 3

(***************************************************************************)
(* Program constants.                                                      *)
(***************************************************************************)
\* EventBus.h:254
QUEUE_SIZE == 10
\* EncoderManager.h:295-297
ULTRA_LONG_PRESS_DURATION == 3000
LONG_PRESS_DURATION == 1000
CLICK_TIMEOUT == 500
\* WiFiManager.h:112, the default of connect()'s timeout parameter (ms)
DEFAULT_CONNECT_TIMEOUT == 10000
\* Core.cpp:147, the uptime at which Booting is left (ms)
BOOT_MS == 4000
\* LEDManager.h:20, 98, 128, 129
NUM_LEDS == 12
LED_QUEUE_SIZE == 10
ANIMATION_INTERVAL == 70
IDLE_DELAY_SECONDS == 5

VARIABLES
    \* ---- EventBus (src/lib/core/EventBus.h) ----
    initialized,      \* EventBus::initialized
    uiToMainQueue,    \* UI -> Core queue: [created, items]
    mainToUIQueue,    \* Core -> UI queue: [created, items]
    \* ---- observation of the last Event Bus call ----
    busRet,           \* [op, ok, timeout, blocked, len, event, expected]
    pendMain,         \* events sent UI -> Core with success and not yet received
    pendUI,           \* events sent Core -> UI with success and not yet received
    \* ---- hardware and time ----
    now,              \* millis()
    pin,              \* level of ENCODER_SW_PIN ("LOW" = pressed)
    position,         \* encoder.position(): the PCNT count
    \* ---- EncoderManager (src/lib/hardware/EncoderManager.h) ----
    lastValue, movement, movementPending,
    lastButtonState, pressStartTime, lastPressDuration,
    clickPending, longPressPending, ultraLongPressPending,
    longPressBuzzed, ultraLongPressNotified,
    \* ---- observation of the encoder ----
    encRet,           \* the last encoder call and what it saw and returned
    press,            \* what the press in progress (or just ended) has raised
    tally,            \* outcomes classified and outcomes observed by consumers
    \* ---- LEDManager (src/lib/hardware/LEDManager.h) ----
    led,              \* the members of LEDManager and the strip it owns
    ledEventQueue,    \* the LED command queue: [created, items]
    ledTask,          \* the animation task: [running, pc]
    \* ---- observation of the LED scheduler ----
    ledObs,           \* [ran, at, sent]: the last tick and the commands sent
    \* ---- WiFiManager (src/lib/network/WiFiManager.h) ----
    wifi,             \* the members of WiFiManager
    radio,            \* the WiFi stack and the stored credentials
    wifiCall,         \* the WiFiManager call the coordinator context is inside
    \* ---- observation of the network manager ----
    netObs,           \* the last WiFiManager operation and what it read
    \* ---- Core (src/lib/core/Core.h) ----
    core,             \* the members of Core and the statics of its handlers
    corePc,           \* where the coordination context is
    \* ---- observation of the coordinator ----
    coreObs,          \* [op, setArg, owed]
    \* ---- the rendering task (Core::runUITask) ----
    uiTask,           \* where the rendering context is
    \* ---- PreferencesManager (src/lib/prefs/PreferencesManager.h) ----
    nvs               \* [inst, ctx, op]: the instances, the contexts using them

busVars == <<initialized, uiToMainQueue, mainToUIQueue, busRet, pendMain, pendUI>>

hwVars == <<now, pin, position>>

rotVars == <<lastValue, movement, movementPending>>

buttonVars == <<lastButtonState, pressStartTime, lastPressDuration,
                clickPending, longPressPending, ultraLongPressPending,
                longPressBuzzed, ultraLongPressNotified>>

encObs == <<encRet, press, tally>>

encVars == <<rotVars, buttonVars, encObs>>

ledVars == <<led, ledEventQueue, ledTask, ledObs>>

netVars == <<wifi, radio, wifiCall, netObs>>

coreVars == <<core, corePc, coreObs>>

vars == <<busVars, hwVars, encVars, ledVars, netVars, coreVars, uiTask, nvs>>

(***************************************************************************)
(* Events (src/lib/core/Events.h).  An Event is copied by value into the   *)
(* queue slot: type, value and stringData.                                 *)
(***************************************************************************)
Event(t, v, s) == [type |-> t, value |-> v, stringData |-> s]

NoEvent == Event("NONE", 0, "")

\* events the bus callers of SpecBus send: a plain one and a marked one that
\* differs from it in type, value and text
PlainEvent == Event("ENCODER_ROTATION", 0, "")
MarkedEvent == Event("DISPLAY_WIFI_AP_MODE", 1, "ap|ip")
BusEvents == {PlainEvent, MarkedEvent}

\* timeouts a caller passes: 0 (poll) or a positive number of ticks
Timeouts == {0, 1}

NullQueue == [created |-> FALSE, items |-> <<>>]
NewQueue == [created |-> TRUE, items |-> <<>>]

Marked(q) == Cardinality({i \in 1..Len(q.items) : q.items[i] = MarkedEvent})

(***************************************************************************)
(* FreeRTOS queue primitives as used by EventBus.cpp.                      *)
(***************************************************************************)
\* xQueueSend: pdPASS iff a slot is free; the event is copied to the back
\* a send that makes room in a full queue by dropping its oldest event
xQueueSendMutOverwrite(q, ev) ==
    IF Len(q.items) < QUEUE_SIZE
    THEN [q EXCEPT !.items = Append(@, ev)]
    ELSE [q EXCEPT !.items = Append(Tail(@), ev)]

xQueueSend(q, ev) ==
    IF Len(q.items) < QUEUE_SIZE
    THEN [q EXCEPT !.items = Append(@, ev)]
    ELSE q

xQueueSendPass(q) == Len(q.items) < QUEUE_SIZE

\* xQueueReceive: pdPASS iff an event waits; the front event is copied out
xQueueReceive(q) ==
    IF Len(q.items) > 0
    THEN [q EXCEPT !.items = Tail(@)]
    ELSE q

xQueueReceivePass(q) == Len(q.items) > 0

xQueueFront(q) == IF Len(q.items) > 0 THEN Head(q.items) ELSE NoEvent

(***************************************************************************)
(* EventBus operations.                                                    *)
(***************************************************************************)
BusInit ==
    /\ initialized = FALSE
    /\ uiToMainQueue = NullQueue
    /\ mainToUIQueue = NullQueue
    /\ busRet = [op |-> "none", ok |-> FALSE, timeout |-> 0, blocked |-> FALSE,
                 len |-> 0, event |-> NoEvent, expected |-> NoEvent]
    /\ pendMain = <<>>
    /\ pendUI = <<>>

\* EventBus::initialize: both queues are created, or none is left allocated
initialize ==
    /\ IF initialized
       THEN UNCHANGED <<initialized, uiToMainQueue, mainToUIQueue>>
       ELSE \E q1ok \in BOOLEAN, q2ok \in BOOLEAN :
               IF ~q1ok
               THEN UNCHANGED <<initialized, uiToMainQueue, mainToUIQueue>>
               ELSE IF ~q2ok
               THEN /\ uiToMainQueue' = NullQueue
                    /\ UNCHANGED <<initialized, mainToUIQueue>>
               ELSE /\ uiToMainQueue' = NewQueue
                    /\ mainToUIQueue' = NewQueue
                    /\ initialized' = TRUE
    /\ busRet' = [op |-> "initialize", ok |-> initialized', timeout |-> 0,
                  blocked |-> FALSE, len |-> 0, event |-> NoEvent, expected |-> NoEvent]
    /\ UNCHANGED <<pendMain, pendUI>>

\* EventBus::initialize by its steps, for the callers that run while it does.
\* Where the call is can be read off the members: it is the only writer of
\* the two handles and of initialized.  busRet.op is "initialize" when the call
\* has returned and "initialize:..." while it is under way.
InitStepRet(op, ok) ==
    [op |-> op, ok |-> ok, timeout |-> 0, blocked |-> FALSE, len |-> 0,
     event |-> NoEvent, expected |-> NoEvent]

\* a first step that sets initialized as soon as the first queue exists
initializeUiToMainMutMarkEarly ==
    /\ ~initialized /\ ~uiToMainQueue.created /\ ~mainToUIQueue.created
    /\ \E ok \in BOOLEAN :
          IF ok
          THEN /\ uiToMainQueue' = NewQueue
               /\ initialized' = TRUE
               /\ busRet' = InitStepRet("initialize:uiToMain", FALSE)
          ELSE /\ busRet' = InitStepRet("initialize", FALSE)
               /\ UNCHANGED <<uiToMainQueue, initialized>>
    /\ UNCHANGED <<mainToUIQueue, pendMain, pendUI>>

\* uiToMainQueue = xQueueCreate(...); return when it failed
initializeUiToMain ==
    /\ ~initialized /\ ~uiToMainQueue.created /\ ~mainToUIQueue.created
    /\ \E ok \in BOOLEAN :
          IF ok
          THEN /\ uiToMainQueue' = NewQueue
               /\ busRet' = InitStepRet("initialize:uiToMain", FALSE)
          ELSE /\ busRet' = InitStepRet("initialize", FALSE)
               /\ UNCHANGED uiToMainQueue
    /\ UNCHANGED <<initialized, mainToUIQueue, pendMain, pendUI>>

\* mainToUIQueue = xQueueCreate(...); when it failed, vQueueDelete of the
\* first queue, its handle set to nullptr, return
initializeMainToUI ==
    /\ ~initialized /\ uiToMainQueue.created /\ ~mainToUIQueue.created
    /\ \E ok \in BOOLEAN :
          IF ok
          THEN /\ mainToUIQueue' = NewQueue
               /\ busRet' = InitStepRet("initialize:mainToUI", FALSE)
               /\ UNCHANGED uiToMainQueue
          ELSE /\ uiToMainQueue' = NullQueue
               /\ busRet' = InitStepRet("initialize", FALSE)
               /\ UNCHANGED mainToUIQueue
    /\ UNCHANGED <<initialized, pendMain, pendUI>>

\* initialized = true
initializeMark ==
    /\ ~initialized /\ uiToMainQueue.created /\ mainToUIQueue.created
    /\ initialized' = TRUE
    /\ busRet' = InitStepRet("initialize", TRUE)
    /\ UNCHANGED <<uiToMainQueue, mainToUIQueue, pendMain, pendUI>>

\* What a call returned: ok, whether the caller was suspended (a failed call
\* with a positive timeout has waited for it), the number of events the
\* target queue held at the call, and the event sent or received.
SendRet(name, q, ev, timeout, ok) ==
    [op |-> name, ok |-> ok, timeout |-> timeout,
     blocked |-> (~ok /\ initialized /\ timeout > 0),
     len |-> Len(q.items), event |-> ev, expected |-> NoEvent]

RecvRet(name, q, ev, timeout, ok, pend) ==
    [op |-> name, ok |-> ok, timeout |-> timeout,
     blocked |-> (~ok /\ initialized /\ timeout > 0),
     len |-> Len(q.items), event |-> IF ok THEN ev ELSE NoEvent,
     expected |-> IF pend = <<>> THEN NoEvent ELSE Head(pend)]

\* the record of events sent with success and not yet received
Sent(pend, ev, ok) == IF ok THEN Append(pend, ev) ELSE pend

Received(pend, ok) == IF ok /\ pend # <<>> THEN Tail(pend) ELSE pend

\* sendToUI with an off-by-one capacity test
sendToUIMutOffByOne(ev, timeout) ==
    IF ~initialized
    THEN /\ busRet' = SendRet("sendToUI", mainToUIQueue, ev, timeout, FALSE)
         /\ UNCHANGED <<initialized, uiToMainQueue, mainToUIQueue, pendMain, pendUI>>
    ELSE /\ mainToUIQueue' = IF Len(mainToUIQueue.items) <= QUEUE_SIZE
                             THEN [mainToUIQueue EXCEPT !.items = Append(@, ev)]
                             ELSE mainToUIQueue
         /\ busRet' = SendRet("sendToUI", mainToUIQueue, ev, timeout,
                              Len(mainToUIQueue.items) <= QUEUE_SIZE)
         /\ pendUI' = Sent(pendUI, ev, busRet'.ok)
         /\ UNCHANGED <<initialized, uiToMainQueue, pendMain>>

\* EventBus::sendToUI(event, timeout)
sendToUI(ev, timeout) ==
    IF ~initialized
    THEN /\ busRet' = SendRet("sendToUI", mainToUIQueue, ev, timeout, FALSE)
         /\ UNCHANGED <<initialized, uiToMainQueue, mainToUIQueue, pendMain, pendUI>>
    ELSE /\ mainToUIQueue' = xQueueSend(mainToUIQueue, ev)
         /\ busRet' = SendRet("sendToUI", mainToUIQueue, ev, timeout,
                              xQueueSendPass(mainToUIQueue))
         /\ pendUI' = Sent(pendUI, ev, busRet'.ok)
         /\ UNCHANGED <<initialized, uiToMainQueue, pendMain>>

\* EventBus::getUIQueueCount
getUIQueueCount == IF ~initialized THEN 0 ELSE Len(mainToUIQueue.items)

\* EventBus::getMainQueueCount
getMainQueueCount == IF ~initialized THEN 0 ELSE Len(uiToMainQueue.items)

\* EventBus::receiveFromMain(event, timeout)
receiveFromMain(timeout) ==
    IF ~initialized
    THEN /\ busRet' = RecvRet("receiveFromMain", mainToUIQueue, NoEvent, timeout, FALSE, <<>>)
         /\ UNCHANGED <<initialized, uiToMainQueue, mainToUIQueue, pendMain, pendUI>>
    ELSE /\ mainToUIQueue' = xQueueReceive(mainToUIQueue)
         /\ busRet' = RecvRet("receiveFromMain", mainToUIQueue, xQueueFront(mainToUIQueue),
                              timeout, xQueueReceivePass(mainToUIQueue), pendUI)
         /\ pendUI' = Received(pendUI, busRet'.ok)
         /\ UNCHANGED <<initialized, uiToMainQueue, pendMain>>

\* sendToMain without the test of initialized
sendToMainMutNoCheck(ev, timeout) ==
    /\ uiToMainQueue' = xQueueSend(uiToMainQueue, ev)
    /\ busRet' = SendRet("sendToMain", uiToMainQueue, ev, timeout,
                         xQueueSendPass(uiToMainQueue))
    /\ pendMain' = Sent(pendMain, ev, busRet'.ok)
    /\ UNCHANGED <<initialized, mainToUIQueue, pendUI>>

\* EventBus::sendToMain(event, timeout)
sendToMain(ev, timeout) ==
    IF ~initialized
    THEN /\ busRet' = SendRet("sendToMain", uiToMainQueue, ev, timeout, FALSE)
         /\ UNCHANGED <<initialized, uiToMainQueue, mainToUIQueue, pendMain, pendUI>>
    ELSE /\ uiToMainQueue' = xQueueSend(uiToMainQueue, ev)
         /\ busRet' = SendRet("sendToMain", uiToMainQueue, ev, timeout,
                              xQueueSendPass(uiToMainQueue))
         /\ pendMain' = Sent(pendMain, ev, busRet'.ok)
         /\ UNCHANGED <<initialized, mainToUIQueue, pendUI>>

\* receiveFromUI that copies the front event out and leaves it queued
receiveFromUIMutPeek(timeout) ==
    IF ~initialized
    THEN /\ busRet' = RecvRet("receiveFromUI", uiToMainQueue, NoEvent, timeout, FALSE, <<>>)
         /\ UNCHANGED <<initialized, uiToMainQueue, mainToUIQueue, pendMain, pendUI>>
    ELSE /\ uiToMainQueue' = uiToMainQueue
         /\ busRet' = RecvRet("receiveFromUI", uiToMainQueue, xQueueFront(uiToMainQueue),
                              timeout, xQueueReceivePass(uiToMainQueue), pendMain)
         /\ pendMain' = Received(pendMain, busRet'.ok)
         /\ UNCHANGED <<initialized, mainToUIQueue, pendUI>>

\* EventBus::receiveFromUI(event, timeout)
receiveFromUI(timeout) ==
    IF ~initialized
    THEN /\ busRet' = RecvRet("receiveFromUI", uiToMainQueue, NoEvent, timeout, FALSE, <<>>)
         /\ UNCHANGED <<initialized, uiToMainQueue, mainToUIQueue, pendMain, pendUI>>
    ELSE /\ uiToMainQueue' = xQueueReceive(uiToMainQueue)
         /\ busRet' = RecvRet("receiveFromUI", uiToMainQueue, xQueueFront(uiToMainQueue),
                              timeout, xQueueReceivePass(uiToMainQueue), pendMain)
         /\ pendMain' = Received(pendMain, busRet'.ok)
         /\ UNCHANGED <<initialized, mainToUIQueue, pendUI>>

(***************************************************************************)
(* Time.  millis() is an unsigned 32-bit millisecond counter; every        *)
(* elapsed time in the code is the unsigned difference millis() - t0 with  *)
(* t0 an earlier reading.  The clocks of the specifications below stay far *)
(* under the 2^32 wrap, where that difference is the plain difference.     *)
(***************************************************************************)
Elapsed(t, t0) == t - t0

\* C++ integer division truncates toward zero
TruncDiv(a, b) == IF a >= 0 THEN a \div b ELSE -((-a) \div b)

(***************************************************************************)
(* EncoderManager (src/lib/hardware/EncoderManager.cpp).                   *)
(***************************************************************************)
NoPress == [click |-> 0, long |-> 0, ultra |-> 0]

\* rot follows a rotation through its consumption: "detected" by update()
\* ("detectedMore" when movement was pending already), "first" and "done" after
\* the first and the second getMovement(), with Zero or NonZero where that call
\* returned the other value; a turn of the knob starts it over
NoTally == [presses |-> 0, turns |-> 0, click |-> 0, long |-> 0, ultra |-> 0,
            gotClick |-> 0, gotLong |-> 0, gotUltra |-> 0, rot |-> "none",
            \* the detent count init() sampled, the sum of what getMovement()
            \* has returned
            base |-> 0, returned |-> 0]

RotAfterUpdate ==
    IF TruncDiv(position, 4) # lastValue
    THEN IF movementPending THEN "detectedMore" ELSE "detected"
    ELSE tally.rot

RotAfterGet(r, v) ==
    CASE r = "detected" -> IF v # 0 THEN "first" ELSE "firstZero"
      [] r = "detectedMore" -> IF v # 0 THEN "firstMore" ELSE "firstZeroMore"
      [] r = "first" -> IF v = 0 THEN "done" ELSE "secondNonZero"
      [] r = "firstMore" -> IF v = 0 THEN "doneMore" ELSE "secondNonZero"
      [] r \in {"firstZero", "firstZeroMore"} -> IF v = 0 THEN r ELSE "secondNonZero"
      [] r \in {"done", "doneMore"} -> "none"
      [] OTHER -> r

EncRet(op, edge, held, d, val) ==
    [op |-> op, edge |-> edge, held |-> held, duration |-> d, value |-> val]

\* state after construction (member initialisers, EncoderManager.h:270-289)
EncInit ==
    /\ lastValue = 0
    /\ movement = 0
    /\ movementPending = FALSE
    /\ lastButtonState = "HIGH"
    /\ pressStartTime = 0
    /\ lastPressDuration = 0
    /\ clickPending = FALSE
    /\ longPressPending = FALSE
    /\ ultraLongPressPending = FALSE
    /\ longPressBuzzed = FALSE
    /\ ultraLongPressNotified = FALSE
    /\ encRet = EncRet("none", "none", FALSE, 0, 0)
    /\ press = NoPress
    /\ tally = NoTally

\* EncoderManager::init: samples the position and the button level
EncoderInit ==
    /\ encRet.op = "none"
    /\ lastValue' = TruncDiv(position, 4)
    /\ lastButtonState' = pin
    /\ encRet' = EncRet("init", "none", FALSE, 0, 0)
    /\ tally' = [tally EXCEPT !.base = TruncDiv(position, 4)]
    /\ UNCHANGED <<movement, movementPending, pressStartTime, lastPressDuration,
                   clickPending, longPressPending, ultraLongPressPending,
                   longPressBuzzed, ultraLongPressNotified, press>>
    /\ UNCHANGED hwVars

\* processEncoder that stores the last delta instead of accumulating it
processEncoderMutAssign ==
    LET newValue == TruncDiv(position, 4) IN
    IF newValue # lastValue
    THEN /\ movement' = newValue - lastValue
         /\ lastValue' = newValue
         /\ movementPending' = TRUE
    ELSE UNCHANGED <<lastValue, movement, movementPending>>

\* EncoderManager::processEncoder
processEncoder ==
    LET newValue == TruncDiv(position, 4) IN
    IF newValue # lastValue
    THEN /\ movement' = movement + (newValue - lastValue)
         /\ lastValue' = newValue
         /\ movementPending' = TRUE
    ELSE UNCHANGED <<lastValue, movement, movementPending>>

\* EncoderManager::getCurrentPressTime, with the level its own digitalRead sees
\* and the value pressStartTime has when it is called
getCurrentPressTime(level, start) ==
    IF level = "LOW" THEN Elapsed(now, start) ELSE 0

\* classification of a release by press duration (processButton, release branch)
ClassifyMutDeadZone(pressDuration, notified) ==
    IF pressDuration >= ULTRA_LONG_PRESS_DURATION
    THEN IF notified THEN "none" ELSE "ultra"
    ELSE IF pressDuration >= LONG_PRESS_DURATION THEN "long"
    ELSE IF pressDuration < LONG_PRESS_DURATION THEN "click"
    ELSE "none"

ClassifyMutRenotify(pressDuration, notified) ==
    IF pressDuration >= ULTRA_LONG_PRESS_DURATION
    THEN "ultra"
    ELSE IF pressDuration >= LONG_PRESS_DURATION THEN "long"
    ELSE IF pressDuration < CLICK_TIMEOUT THEN "click"
    ELSE "none"

Classify(pressDuration, notified) ==
    IF pressDuration >= ULTRA_LONG_PRESS_DURATION
    THEN IF notified THEN "none" ELSE "ultra"
    ELSE IF pressDuration >= LONG_PRESS_DURATION THEN "long"
    ELSE IF pressDuration < CLICK_TIMEOUT THEN "click"
    ELSE "none"

\* EncoderManager::processButton.  cur is the level sampled at entry; reread
\* is the level getCurrentPressTime samples (the pin may change in between).
processButton(cur, reread) ==
    LET currentTime == now
        pressEdge == cur # lastButtonState /\ cur = "LOW"
        releaseEdge == cur # lastButtonState /\ cur = "HIGH"
        \* press detection
        start1 == IF pressEdge THEN currentTime ELSE pressStartTime
        buzz1 == IF pressEdge THEN FALSE ELSE longPressBuzzed
        notif1 == IF pressEdge THEN FALSE ELSE ultraLongPressNotified
        \* release detection
        pressDuration == Elapsed(currentTime, start1)
        last2 == IF releaseEdge THEN pressDuration ELSE lastPressDuration
        outcome == IF releaseEdge THEN Classify(pressDuration, notif1) ELSE "none"
        relLong == outcome = "long"
        relClick == outcome = "click"
        raise2 == outcome = "ultra"
        notif2 == notif1 \/ raise2
        \* ongoing press feedback
        pressTime == getCurrentPressTime(reread, start1)
        buzz3 == IF cur = "LOW" /\ pressTime >= LONG_PRESS_DURATION /\ ~buzz1
                 THEN TRUE ELSE buzz1
        raise3 == cur = "LOW" /\ pressTime >= ULTRA_LONG_PRESS_DURATION /\ ~notif2
        notif3 == IF cur = "LOW"
                  THEN notif2 \/ raise3
                  ELSE IF notif2 /\ last2 < ULTRA_LONG_PRESS_DURATION
                       THEN FALSE ELSE notif2
        base == IF pressEdge THEN NoPress ELSE press
        nUltra == (IF raise2 THEN 1 ELSE 0) + (IF raise3 THEN 1 ELSE 0)
    IN
    /\ pressStartTime' = start1
    /\ longPressBuzzed' = buzz3
    /\ ultraLongPressNotified' = notif3
    /\ lastPressDuration' = last2
    /\ ultraLongPressPending' = (ultraLongPressPending \/ raise2 \/ raise3)
    /\ longPressPending' = (longPressPending \/ relLong)
    /\ clickPending' = (clickPending \/ relClick)
    /\ lastButtonState' = cur
    /\ encRet' = EncRet("update",
                        IF pressEdge THEN "press" ELSE IF releaseEdge THEN "release" ELSE "none",
                        cur = "LOW" /\ reread = "LOW",
                        IF releaseEdge THEN pressDuration ELSE pressTime, 0)
    /\ press' = [click |-> base.click + (IF relClick THEN 1 ELSE 0),
                 long |-> base.long + (IF relLong THEN 1 ELSE 0),
                 ultra |-> base.ultra + nUltra]
    /\ tally' = [tally EXCEPT !.rot = RotAfterUpdate,
                              !.click = @ + (IF relClick THEN 1 ELSE 0),
                              !.long = @ + (IF relLong THEN 1 ELSE 0),
                              !.ultra = @ + nUltra]

\* EncoderManager::update: processEncoder then processButton
update ==
    /\ encRet.op # "none"
    /\ processEncoder
    /\ \E reread \in {"LOW", "HIGH"} :
          /\ (pin = "HIGH" => reread = "HIGH")
          /\ processButton(pin, reread)
          /\ pin' = reread
    /\ UNCHANGED <<now, position>>

\* getMovement that returns the total and keeps it pending
getMovementMutKeep ==
    /\ encRet.op # "none"
    /\ encRet' = EncRet("getMovement", "none", FALSE, 0,
                        IF movementPending THEN movement ELSE 0)
    /\ tally' = [tally EXCEPT !.rot = RotAfterGet(@, encRet'.value),
                              !.returned = @ + encRet'.value]
    /\ UNCHANGED <<movement, movementPending>>
    /\ UNCHANGED <<lastValue, buttonVars, press, hwVars>>

\* EncoderManager::getMovement
getMovement ==
    /\ encRet.op # "none"
    /\ IF movementPending
       THEN /\ movement' = 0
            /\ movementPending' = FALSE
            /\ encRet' = EncRet("getMovement", "none", FALSE, 0, movement)
       ELSE /\ UNCHANGED <<movement, movementPending>>
            /\ encRet' = EncRet("getMovement", "none", FALSE, 0, 0)
    /\ tally' = [tally EXCEPT !.rot = RotAfterGet(@, encRet'.value),
                              !.returned = @ + encRet'.value]
    /\ UNCHANGED <<lastValue, buttonVars, press, hwVars>>

\* EncoderManager::getClicked
getClicked ==
    /\ encRet.op # "none"
    /\ clickPending' = FALSE
    /\ encRet' = EncRet("getClicked", "none", FALSE, 0, IF clickPending THEN 1 ELSE 0)
    /\ tally' = [tally EXCEPT !.gotClick = @ + (IF clickPending THEN 1 ELSE 0)]
    /\ UNCHANGED <<rotVars, lastButtonState, pressStartTime, lastPressDuration,
                   longPressPending, ultraLongPressPending, longPressBuzzed,
                   ultraLongPressNotified, press, hwVars>>

\* getLongPressed that clears a pending click with the long press
getLongPressedMutClearClick ==
    /\ encRet.op # "none"
    /\ longPressPending' = FALSE
    /\ clickPending' = FALSE
    /\ encRet' = EncRet("getLongPressed", "none", FALSE, 0, IF longPressPending THEN 1 ELSE 0)
    /\ tally' = [tally EXCEPT !.gotLong = @ + (IF longPressPending THEN 1 ELSE 0)]
    /\ UNCHANGED <<rotVars, lastButtonState, pressStartTime, lastPressDuration,
                   ultraLongPressPending, longPressBuzzed,
                   ultraLongPressNotified, press, hwVars>>

\* EncoderManager::getLongPressed
getLongPressed ==
    /\ encRet.op # "none"
    /\ longPressPending' = FALSE
    /\ encRet' = EncRet("getLongPressed", "none", FALSE, 0, IF longPressPending THEN 1 ELSE 0)
    /\ tally' = [tally EXCEPT !.gotLong = @ + (IF longPressPending THEN 1 ELSE 0)]
    /\ UNCHANGED <<rotVars, lastButtonState, pressStartTime, lastPressDuration,
                   clickPending, ultraLongPressPending, longPressBuzzed,
                   ultraLongPressNotified, press, hwVars>>

\* EncoderManager::getUltraLongPressed
getUltraLongPressed ==
    /\ encRet.op # "none"
    /\ ultraLongPressPending' = FALSE
    /\ encRet' = EncRet("getUltraLongPressed", "none", FALSE, 0,
                        IF ultraLongPressPending THEN 1 ELSE 0)
    /\ tally' = [tally EXCEPT !.gotUltra = @ + (IF ultraLongPressPending THEN 1 ELSE 0)]
    /\ UNCHANGED <<rotVars, lastButtonState, pressStartTime, lastPressDuration,
                   clickPending, longPressPending, longPressBuzzed,
                   ultraLongPressNotified, press, hwVars>>

(***************************************************************************)
(* LEDManager (src/lib/hardware/LEDManager.cpp).  The members are fields   *)
(* of the record led; a handler maps the record at its entry to the record *)
(* at its return.  t is the value millis() returns to the handler.         *)
(***************************************************************************)
Black == <<0, 0, 0>>
Azure == <<0, 181, 214>>
LoadingOrange == <<244, 70, 17>>
Green == <<0, 255, 0>>
FlashOrange == <<255, 165, 0>>

AllPixels(c) == [kind |-> "all", at |-> 0, color |-> c]
OnePixel(i, c) == [kind |-> "one", at |-> i, color |-> c]

\* member initialisers (LEDManager.h:96-125)
LedMembers ==
    [pulsating |-> TRUE, loading |-> FALSE, flash |-> FALSE, fading |-> FALSE,
     inited |-> FALSE, initAnimationCompleted |-> FALSE,
     previousMillis |-> 0, lastEncMovementTime |-> 0, lastFlashStarted |-> 0,
     fadeStartMillis |-> 0,
     cursorLED |-> 0, currentBrightness |-> 250, startBrightness |-> 0,
     targetBrightness |-> 0, fadeDuration |-> 3000, flashDuration |-> 0,
     clockwise |-> TRUE,
     baseRgb |-> Azure, rgb |-> Black,
     \* updatePulsatingAnimation's statics
     lastPulseUpdate |-> 0, pulseUp |-> TRUE,
     \* the strip: brightness and pixel buffer, and what show() last latched
     stripBrightness |-> 0, pixels |-> AllPixels(Black),
     shown |-> [brightness |-> 0, pixels |-> AllPixels(Black)],
     \* milliseconds the handler itself slept (vTaskDelay)
     slept |-> 0]

\* strip.show()
Show(L) == [L EXCEPT !.shown = [brightness |-> L.stripBrightness, pixels |-> L.pixels]]

\* strip.setBrightness(uint8_t)
SetBrightness(L, b) == [L EXCEPT !.stripBrightness = b % 256]

\* LEDManager::resetAllLEDs
resetAllLEDs(L) == [L EXCEPT !.pixels = AllPixels(Black)]

\* LEDManager::setAllLEDs
setAllLEDs(L, c) == [L EXCEPT !.rgb = c, !.pixels = AllPixels(c)]

\* LEDManager::fadeToBrightness
fadeToBrightness(L, t, brightness, duration) ==
    [L EXCEPT !.startBrightness = L.currentBrightness,
              !.targetBrightness = brightness,
              !.fadeStartMillis = IF L.fading THEN @ ELSE t,
              !.fadeDuration = duration,
              !.fading = TRUE]

\* Arduino map(): integer arithmetic, division truncating toward zero
map(x, inMin, inMax, outMin, outMax) ==
    TruncDiv((x - inMin) * (outMax - outMin), inMax - inMin) + outMin

\* LEDManager::processLEDEvents, one received command
applyLEDEvent(L, t, e) ==
    CASE e.type = "SET_LOADING" ->
            LET L1 == [L EXCEPT !.loading = e.state] IN
            IF e.state
            THEN setAllLEDs([L1 EXCEPT !.lastEncMovementTime = t,
                                       !.pulsating = FALSE,
                                       !.fading = FALSE], LoadingOrange)
            ELSE fadeToBrightness(setAllLEDs(L1, L1.baseRgb), t, 200, 150)
      [] e.type = "FLASH_COLOR" ->
            Show(setAllLEDs(SetBrightness(
                [L EXCEPT !.pulsating = FALSE, !.fading = FALSE, !.flash = TRUE,
                          !.flashDuration = e.duration, !.lastFlashStarted = t,
                          !.currentBrightness = e.brightness],
                e.brightness), e.rgb))
      [] e.type = "ACTIVATE" ->
            LET L1 == [L EXCEPT !.lastEncMovementTime = IF L.loading THEN @ ELSE t,
                                !.pulsating = FALSE, !.fading = FALSE,
                                !.currentBrightness = 255]
            IN Show(setAllLEDs(SetBrightness(L1, 255), L1.rgb))
      [] e.type = "SET_COLOR" ->
            Show([setAllLEDs(L, e.rgb) EXCEPT !.baseRgb = e.rgb])
      [] OTHER -> L

\* LEDManager::updateInitAnimation
updateInitAnimation(L, t) ==
    LET sweep == ~L.inited /\ t - L.previousMillis >= ANIMATION_INTERVAL
        A == IF sweep
             THEN Show([resetAllLEDs(L) EXCEPT
                          !.previousMillis = t,
                          !.pixels = OnePixel(L.cursorLED, L.rgb)])
             ELSE L
        moved == IF A.clockwise THEN A.cursorLED + 1 ELSE A.cursorLED - 1
        B == IF ~sweep THEN A
             ELSE IF moved >= NUM_LEDS
                  THEN [A EXCEPT !.clockwise = FALSE, !.cursorLED = NUM_LEDS - 1]
                  ELSE [A EXCEPT !.cursorLED = moved]
        C == IF sweep /\ B.cursorLED <= 0 /\ ~B.clockwise
             THEN [fadeToBrightness([Show(SetBrightness(B, 0)) EXCEPT !.slept = 500],
                                    t + 500, 255, 150)
                     EXCEPT !.inited = TRUE, !.cursorLED = 0, !.clockwise = TRUE]
             ELSE B
        D == IF C.inited /\ C.currentBrightness # 0
             THEN fadeToBrightness(C, t + C.slept, 0, 3000)
             ELSE C
    IN IF t > 4000 /\ ~D.initAnimationCompleted
       THEN [D EXCEPT !.initAnimationCompleted = TRUE, !.pulsating = TRUE]
       ELSE D

\* LEDManager::updateLoadingAnimation (getBrightness() is currentBrightness)
updateLoadingAnimation(L, t) ==
    LET A == IF L.currentBrightness # 250 THEN fadeToBrightness(L, t, 250, 50) ELSE L
    IN IF A.currentBrightness # 1 THEN fadeToBrightness(A, t, 1, 50) ELSE A

\* LEDManager::updatePulsatingAnimation
updatePulsatingAnimation(L, t) ==
    IF t - L.lastPulseUpdate > 100
    THEN LET A == [L EXCEPT !.lastPulseUpdate = t] IN
         IF A.pulseUp
         THEN IF A.currentBrightness < 100
              THEN fadeToBrightness(A, t, 100, 1500)
              ELSE [A EXCEPT !.pulseUp = FALSE]
         ELSE IF A.currentBrightness > 10
              THEN fadeToBrightness(A, t, 10, 2000)
              ELSE [A EXCEPT !.pulseUp = TRUE]
    ELSE L

\* LEDManager::updateFlashAnimation
updateFlashAnimation(L, t) ==
    IF t - L.lastFlashStarted >= L.flashDuration
    THEN Show(setAllLEDs([L EXCEPT !.flash = FALSE, !.flashDuration = 0], L.baseRgb))
    ELSE L

\* LEDManager::updateFadeAnimation
updateFadeAnimation(L, t) ==
    LET elapsedTime == t - L.fadeStartMillis IN
    IF elapsedTime <= L.fadeDuration
    THEN Show(setAllLEDs(
             SetBrightness(L, map(elapsedTime, 0, L.fadeDuration,
                                  L.startBrightness, L.targetBrightness)),
             L.rgb))
    ELSE LET A == [L EXCEPT !.fading = FALSE, !.currentBrightness = L.targetBrightness]
         IN Show(setAllLEDs(SetBrightness(A, A.currentBrightness), A.rgb))

\* the idle branch at the end of updateAnimations
idleCheckMutLate(L, t) ==
    IF t - L.lastEncMovementTime >= 2 * IDLE_DELAY_SECONDS * 1000
    THEN IF L.currentBrightness > 10
         THEN fadeToBrightness(L, t, 10, 1000)
         ELSE [L EXCEPT !.pulsating = TRUE]
    ELSE L

idleCheck(L, t) ==
    IF t - L.lastEncMovementTime >= IDLE_DELAY_SECONDS * 1000
    THEN IF L.currentBrightness > 10
         THEN fadeToBrightness(L, t, 10, 1000)
         ELSE [L EXCEPT !.pulsating = TRUE]
    ELSE L

\* which handler LEDManager::updateAnimations runs: the first whose flag is set
whichAnimationMutFlashFirst(L) ==
    IF L.flash THEN "flash"
    ELSE IF L.fading THEN "fade"
    ELSE IF L.loading THEN "loading"
    ELSE IF ~L.initAnimationCompleted THEN "init"
    ELSE IF L.pulsating THEN "pulsating"
    ELSE "idle"

whichAnimation(L) ==
    IF L.fading THEN "fade"
    ELSE IF L.flash THEN "flash"
    ELSE IF L.loading THEN "loading"
    ELSE IF ~L.initAnimationCompleted THEN "init"
    ELSE IF L.pulsating THEN "pulsating"
    ELSE "idle"

\* LEDManager::updateAnimations
updateAnimations(L, t) ==
    LET w == whichAnimation(L) IN
    CASE w = "fade" -> updateFadeAnimation(L, t)
      [] w = "flash" -> updateFlashAnimation(L, t)
      [] w = "loading" -> updateLoadingAnimation(L, t)
      [] w = "init" -> updateInitAnimation(L, t)
      [] w = "pulsating" -> updatePulsatingAnimation(L, t)
      [] OTHER -> idleCheck(L, t)

\* what one call of updateAnimations advances: the handler it runs, "dim" for
\* the idle branch once the inactivity window has elapsed, "none" before
advanced(L, t) ==
    LET w == whichAnimation(L) IN
    IF w # "idle" THEN w
    ELSE IF t - L.lastEncMovementTime >= IDLE_DELAY_SECONDS * 1000 THEN "dim"
    ELSE "none"

\* what the model records about the LED task: the handler its last tick ran
\* and the members at that tick's entry, the commands sent, whether init()
\* ran, and for the flash in progress which commands were processed since
\* its FLASH_COLOR ("quiet": none, "loading": SET_LOADING only, "none": no
\* flash in progress or another command) with what the flash latched, the
\* time at which the last ACTIVATE was processed and the time at which the
\* last ACTIVATE or SET_LOADING(on) was (0 before the first), and the time
\* of the last call of fadeToBrightness
NoLedObs ==
    [ran |-> "none", at |-> LedMembers, sent |-> 0, inited |-> FALSE,
     sinceFlash |-> "none", flashShown |-> LedMembers.shown, activated |-> 0,
     touched |-> 0, fadeAt |-> 0]

LedInit ==
    /\ led = LedMembers
    /\ ledEventQueue = NullQueue
    /\ ledTask = [running |-> FALSE, pc |-> "events"]
    /\ ledObs = NoLedObs

\* LEDManager::sendLEDEvent: false when the queue does not exist or stays full
sendLEDEventTo(q, e) ==
    IF q.created /\ Len(q.items) < LED_QUEUE_SIZE
    THEN [q EXCEPT !.items = Append(@, e)]
    ELSE q

sendLEDEventMutDirect(e) ==
    /\ led' = applyLEDEvent(led, now, e)
    /\ UNCHANGED ledEventQueue

sendLEDEvent(e) ==
    /\ ledEventQueue' = sendLEDEventTo(ledEventQueue, e)
    /\ UNCHANGED led

LEDEvent(type, rgb, brightness, duration, state) ==
    [type |-> type, rgb |-> rgb, brightness |-> brightness,
     duration |-> duration, state |-> state]

\* LEDManager::init.  The colour theme read from the preferences is c.
LEDManagerInit(qok, c) ==
    /\ led' = Show(resetAllLEDs(SetBrightness(led, led.currentBrightness)))
    /\ ledEventQueue' =
          IF qok
          THEN [created |-> TRUE, items |-> <<LEDEvent("SET_COLOR", c, 0, 0, FALSE)>>]
          ELSE NullQueue
    /\ ledObs' = [ledObs EXCEPT !.inited = TRUE]
    /\ UNCHANGED ledTask

\* LEDManager::startAnimationTask
startAnimationTask(ok) ==
    /\ ledTask' = IF ledTask.running THEN ledTask
                  ELSE [running |-> ok, pc |-> "events"]
    /\ UNCHANGED <<led, ledEventQueue, ledObs>>

\* LEDManager::setLoadingState
setLoadingState(on) == sendLEDEvent(LEDEvent("SET_LOADING", Black, 0, 0, on))

\* LEDManager::flashColor
flashColor(c, brightness, duration) ==
    sendLEDEvent(LEDEvent("FLASH_COLOR", c, brightness, duration, FALSE))

\* LEDManager::activate
activate == sendLEDEvent(LEDEvent("ACTIVATE", Black, 0, 0, FALSE))

\* LEDManager::updateLastEncoderMovementTime
updateLastEncoderMovementTime == activate

\* LEDManager::setMainColor, the colour palette; an unknown name gives azure
Palette(colorName) ==
    CASE colorName = "azure" -> <<0, 181, 214>>
      [] colorName = "green" -> <<30, 254, 30>>
      [] colorName = "red" -> <<255, 0, 0>>
      [] colorName = "orange" -> <<254, 94, 0>>
      [] colorName = "yellow" -> <<128, 128, 0>>
      [] colorName = "blue" -> <<18, 0, 213>>
      [] colorName = "violet" -> <<110, 0, 255>>
      [] colorName = "purple" -> <<211, 0, 164>>
      [] OTHER -> <<0, 181, 214>>

\* LEDManager::setMainColor; colorName is the argument, or the stored
\* preference when the argument is empty
setMainColor(colorName) ==
    sendLEDEvent(LEDEvent("SET_COLOR", Palette(colorName), 0, 0, FALSE))

\* LEDManager::animationLoop, one command received by processLEDEvents
LedProcessEvent ==
    /\ ledTask.running /\ ledTask.pc = "events"
    /\ Len(ledEventQueue.items) > 0
    /\ led' = applyLEDEvent(led, now, Head(ledEventQueue.items))
    /\ ledEventQueue' = [ledEventQueue EXCEPT !.items = Tail(@)]
    /\ LET type == Head(ledEventQueue.items).type
           since == CASE type = "FLASH_COLOR" -> "quiet"
                      [] type = "SET_LOADING" /\ ledObs.sinceFlash # "none" -> "loading"
                      [] OTHER -> "none"
       IN ledObs' = [ledObs EXCEPT
             !.sinceFlash = since,
             !.flashShown = IF type = "FLASH_COLOR" THEN led'.shown
                            ELSE IF since = "none" THEN NoLedObs.flashShown
                            ELSE @,
             !.activated = IF type = "ACTIVATE" THEN now ELSE @,
             !.touched = IF \/ type = "ACTIVATE"
                            \/ type = "SET_LOADING" /\ Head(ledEventQueue.items).state
                         THEN now ELSE @,
             !.fadeAt = IF type = "SET_LOADING" /\ ~Head(ledEventQueue.items).state
                        THEN now ELSE @]
    /\ UNCHANGED <<ledTask, now>>

\* LEDManager::processLEDEvents when init() could not create the queue: the
\* task calls xQueueReceive on the null handle.  The call does not return: it
\* fails the queue's assertion or reads through the null pointer, and either
\* way the firmware panics ("fault").
LedReceiveNull ==
    /\ ledTask.running /\ ledTask.pc = "events"
    /\ ~ledEventQueue.created
    /\ ledTask' = [ledTask EXCEPT !.pc = "fault"]
    /\ UNCHANGED <<led, ledEventQueue, ledObs, now>>

\* LEDManager::animationLoop, updateAnimations once the queue is drained
LedUpdateAnimations ==
    /\ ledTask.running /\ ledTask.pc = "events"
    /\ ledEventQueue.created
    /\ Len(ledEventQueue.items) = 0
    /\ LET R == updateAnimations(led, now) IN
       /\ led' = [R EXCEPT !.slept = 0]
       /\ now' = now + R.slept
    /\ ledObs' = [ledObs EXCEPT
          !.ran = advanced(led, now), !.at = led,
          !.fadeAt = IF ~led.fading /\ led'.fading THEN led'.fadeStartMillis ELSE @,
          !.sinceFlash = IF led'.flash THEN @ ELSE "none",
          !.flashShown = IF led'.flash THEN @ ELSE NoLedObs.flashShown]
    /\ ledTask' = [ledTask EXCEPT !.pc = "delay"]
    /\ UNCHANGED ledEventQueue

\* LEDManager::animationLoop, vTaskDelayUntil: the next tick is d ms later
LedDelay(d) ==
    /\ ledTask.running /\ ledTask.pc = "delay"
    /\ now' = now + d
    /\ ledTask' = [ledTask EXCEPT !.pc = "events"]
    /\ UNCHANGED <<led, ledEventQueue, ledObs>>

(***************************************************************************)
(* WiFiManager (src/lib/network/WiFiManager.cpp).  The members are fields  *)
(* of the record wifi.  radio is the WiFi stack: the station ("idle",      *)
(* "begun" after WiFi.begin, "up" once an address is assigned), the soft   *)
(* access point, a disconnect notification not yet delivered, and whether  *)
(* the preferences hold credentials.  The stack delivers its notifications *)
(* on its own context, one at a time, between any two steps of the         *)
(* coordinator: handler is the position of that context in                 *)
(* WiFiEventHandler, ntp the outcome of the NTPManager::init call of the   *)
(* last got-IP notification ("none" while its handler is running).         *)
(***************************************************************************)
WiFiStates ==
    {"DISCONNECTED", "CONNECTING", "CONNECTED", "TIMEOUT", "AP_MODE_INIT", "AP_MODE",
     "WPS_LISTENING", "WPS_SUCCESS", "WPS_FAILED", "ERROR", "CREDENTIAL_NOT_FOUND"}

\* member initialisers (WiFiManager.h:299-308)
WiFiMembers ==
    [currentState |-> "DISCONNECTED", connectionStartTime |-> 0,
     connectionTimeout |-> DEFAULT_CONNECT_TIMEOUT,
     initialized |-> FALSE, wpsStarted |-> FALSE]

\* what the model records about the Network Manager: the last operation, what
\* a pending update() read, the last attempt's start and timeout, the number
\* of attempts, and the Network State in which setupAP() was called, kept
\* until the next call of the API
NoNetObs ==
    [op |-> "none", readState |-> "none", readAt |-> 0,
     connectAt |-> 0, connectTimeout |-> 0, connects |-> 0, apFrom |-> "none"]

\* saved: whether the preferences hold WiFi credentials
NetInitWith(saved) ==
    /\ wifi = WiFiMembers
    /\ radio = [sta |-> "idle", ap |-> FALSE, discPending |-> FALSE, saved |-> saved,
                handler |-> "none", ntp |-> "none"]
    /\ wifiCall = "none"
    /\ netObs = NoNetObs

NetInit == NetInitWith(FALSE)

\* WiFiManager::setState
WiFiSetState(W, newState) ==
    IF W.currentState # newState THEN [W EXCEPT !.currentState = newState] ELSE W

\* WiFi.disconnect() and WiFi.mode(): a station that was begun or up is
\* stopped, and the stack will notify the disconnection
StopStation(R) ==
    [R EXCEPT !.sta = "idle", !.discPending = @ \/ R.sta # "idle"]

\* WiFiManager::connect, at time t (after its delay(100))
WiFiConnectMutKeepStart(W, t, timeout) ==
    IF ~W.initialized THEN W
    ELSE [WiFiSetState(W, "CONNECTING") EXCEPT !.connectionTimeout = timeout]

WiFiConnect(W, t, timeout) ==
    IF ~W.initialized THEN W
    ELSE [WiFiSetState(W, "CONNECTING") EXCEPT
             !.connectionStartTime = t, !.connectionTimeout = timeout]

\* the stack's side of connect(): WiFi.mode(WIFI_STA), disconnect(), begin()
RadioConnect(W, R) ==
    IF ~W.initialized THEN R
    ELSE [StopStation(R) EXCEPT !.sta = "begun", !.ap = FALSE]

\* WiFiManager::handleConnectionTimeout's test
TimedOutMutAtLeast(W, t) == Elapsed(t, W.connectionStartTime) >= W.connectionTimeout

TimedOut(W, t) == Elapsed(t, W.connectionStartTime) > W.connectionTimeout

\* connect(), connectWithSavedCredentials(), reconnect() and init() as one
\* step of the calling context, entered at time t0 with the stack in R0.
\* fromPrefs: use the stored credentials, and set CREDENTIAL_NOT_FOUND when
\* there are none or connect() refuses.
DoConnect(name, timeout, fromPrefs, setInit, R0, t0) ==
    LET W0 == IF setInit THEN [wifi EXCEPT !.initialized = TRUE] ELSE wifi
        try == (fromPrefs => R0.saved) /\ W0.initialized
    IN /\ wifiCall = "none"
       /\ wifi' = IF try THEN WiFiConnect(W0, t0 + 100, timeout)
                  ELSE IF fromPrefs THEN WiFiSetState(W0, "CREDENTIAL_NOT_FOUND")
                  ELSE W0
       /\ radio' = IF try THEN RadioConnect(W0, R0) ELSE R0
       /\ now' = IF try THEN t0 + 100 ELSE t0
       /\ netObs' = [netObs EXCEPT
             !.op = name,
             !.connectAt = IF try THEN t0 + 100 ELSE @,
             !.connectTimeout = IF try THEN timeout ELSE @,
             !.connects = IF try THEN @ + 1 ELSE @,
             !.apFrom = "none"]
       /\ UNCHANGED wifiCall

\* WiFiManager::init
WiFiInit == DoConnect("init", DEFAULT_CONNECT_TIMEOUT, TRUE, TRUE, radio, now)

\* WiFiManager::reconnect
WiFiReconnect == DoConnect("reconnect", DEFAULT_CONNECT_TIMEOUT, TRUE, FALSE, radio, now)

\* WiFiManager::update, up to the decision of handleConnectionTimeout.  The
\* state is read here and written by WiFiUpdateWrite.
WiFiUpdate ==
    /\ wifiCall = "none"
    /\ LET expire == wifi.initialized /\ wifi.currentState = "CONNECTING"
                       /\ TimedOut(wifi, now)
       IN /\ wifiCall' = IF expire THEN "update" ELSE "none"
          /\ netObs' = [netObs EXCEPT
                !.op = IF expire THEN "update-read" ELSE "update",
                !.readState = IF expire THEN wifi.currentState ELSE "none",
                !.readAt = IF expire THEN now ELSE 0]
    /\ UNCHANGED <<wifi, radio, now>>

\* WiFiManager::handleConnectionTimeout, setState(TIMEOUT)
WiFiUpdateWrite ==
    /\ wifiCall = "update"
    /\ wifi' = WiFiSetState(wifi, "TIMEOUT")
    /\ wifiCall' = "none"
    /\ netObs' = [netObs EXCEPT !.op = "update", !.readState = "none", !.readAt = 0]
    /\ UNCHANGED <<radio, now>>

\* WiFiManager::disconnect
WiFiDisconnect ==
    /\ wifiCall = "none"
    /\ wifi' = WiFiSetState(wifi, "DISCONNECTED")
    /\ radio' = StopStation(radio)
    /\ netObs' = [netObs EXCEPT !.op = "disconnect", !.apFrom = "none"]
    /\ UNCHANGED <<wifiCall, now>>

\* WiFiManager::setupAP, up to the call of WiFi.softAP
WiFiSetupAPMutNoInit ==
    /\ wifiCall = "none"
    /\ wifi' = wifi
    /\ radio' = StopStation(radio)
    /\ wifiCall' = "setupAP"
    /\ netObs' = [netObs EXCEPT !.op = "setupAP", !.apFrom = wifi.currentState]
    /\ UNCHANGED now

WiFiSetupAP ==
    /\ wifiCall = "none"
    /\ wifi' = WiFiSetState(wifi, "AP_MODE_INIT")
    /\ radio' = StopStation(radio)
    /\ wifiCall' = "setupAP"
    /\ netObs' = [netObs EXCEPT !.op = "setupAP", !.apFrom = wifi.currentState]
    /\ UNCHANGED now

\* WiFiManager::setupAP, from the return of WiFi.softAP
WiFiSetupAPDone(apStarted) ==
    /\ wifiCall = "setupAP"
    /\ wifi' = WiFiSetState(wifi, IF apStarted THEN "AP_MODE" ELSE "ERROR")
    /\ radio' = [radio EXCEPT !.ap = apStarted]
    /\ wifiCall' = "none"
    /\ netObs' = [netObs EXCEPT !.op = "setupAP-done"]
    /\ UNCHANGED now

\* WiFiManager::getAPIP
getAPIP == "192.168.4.1"

\* WiFiManager::startWPS
WiFiStartWPS ==
    /\ wifiCall = "none"
    /\ wifi' = IF wifi.wpsStarted THEN wifi
               ELSE [WiFiSetState(wifi, "WPS_LISTENING") EXCEPT !.wpsStarted = TRUE]
    /\ radio' = IF wifi.wpsStarted THEN radio ELSE [StopStation(radio) EXCEPT !.ap = FALSE]
    /\ netObs' = [netObs EXCEPT !.op = "startWPS", !.apFrom = "none"]
    /\ UNCHANGED <<wifiCall, now>>

\* WiFiManager::stopWPS
WiFiStopWPS ==
    /\ wifiCall = "none"
    /\ wifi' = [wifi EXCEPT !.wpsStarted = FALSE]
    /\ netObs' = [netObs EXCEPT !.op = "stopWPS", !.apFrom = "none"]
    /\ UNCHANGED <<radio, wifiCall, now>>

\* WiFiManager::saveCredentials
saveCredentialsMutSkip(R) == R

saveCredentials(R) == [R EXCEPT !.saved = TRUE]

\* NTPManager::init: configures the time synchronisation when the station is
\* connected (WiFi.status() == WL_CONNECTED) and returns at once otherwise
NTPInit(R) == [R EXCEPT !.ntp = IF R.sta = "up" THEN "configured" ELSE "skipped"]

\* WiFiManager::WiFiEventHandler, ARDUINO_EVENT_WIFI_STA_GOT_IP: the entry of
\* the handler and saveCredentials(WiFi.SSID(), WiFi.psk())
OnGotIP ==
    /\ wifi.initialized /\ radio.sta = "begun" /\ radio.handler = "none"
    /\ radio' = [saveCredentials([radio EXCEPT !.sta = "up"]) EXCEPT
                    !.handler = "got-ip-saved", !.ntp = "none"]
    /\ netObs' = [netObs EXCEPT !.op = "got-ip"]
    /\ UNCHANGED <<wifi, wifiCall, now>>

\* ... setState(CONNECTED)
OnGotIPSetState ==
    /\ radio.handler = "got-ip-saved"
    /\ wifi' = WiFiSetState(wifi, "CONNECTED")
    /\ radio' = [radio EXCEPT !.handler = "got-ip-set"]
    /\ netObs' = [netObs EXCEPT !.op = "got-ip-set"]
    /\ UNCHANGED <<wifiCall, now>>

\* ... delay(1000) and NTPManager::init(), the end of the handler
OnGotIPTimeSync ==
    /\ radio.handler = "got-ip-set"
    /\ radio' = [NTPInit(radio) EXCEPT !.handler = "none"]
    /\ netObs' = [netObs EXCEPT !.op = "got-ip-ntp"]
    /\ UNCHANGED <<wifi, wifiCall, now>>

\* WiFiManager::WiFiEventHandler, ARDUINO_EVENT_WIFI_STA_DISCONNECTED
OnStaDisconnected ==
    /\ wifi.initialized /\ radio.handler = "none"
    /\ radio.discPending \/ radio.sta # "idle"
    /\ wifi' = IF wifi.currentState = "CONNECTING" THEN wifi
               ELSE WiFiSetState(wifi, "DISCONNECTED")
    /\ radio' = [radio EXCEPT !.discPending = FALSE,
                              !.sta = IF @ = "up" THEN "begun" ELSE @]
    /\ netObs' = [netObs EXCEPT !.op = "sta-disconnected"]
    /\ UNCHANGED <<wifiCall, now>>

\* WiFiManager::WiFiEventHandler, ARDUINO_EVENT_WPS_ER_SUCCESS (ok) and
\* ARDUINO_EVENT_WPS_ER_FAILED / _TIMEOUT (~ok)
OnWPS(ok) ==
    /\ wifi.initialized /\ wifi.wpsStarted /\ radio.handler = "none"
    /\ wifi' = [WiFiSetState(wifi, IF ok THEN "WPS_SUCCESS" ELSE "WPS_FAILED")
                  EXCEPT !.wpsStarted = FALSE]
    /\ radio' = IF ok THEN [radio EXCEPT !.sta = "begun"] ELSE radio
    /\ netObs' = [netObs EXCEPT !.op = IF ok THEN "wps-success" ELSE "wps-failed"]
    /\ UNCHANGED <<wifiCall, now>>

(***************************************************************************)
(* Core (src/lib/core/Core.cpp).  The members are fields of the record     *)
(* core, with the statics of handleWiFiConnection (lastWiFiState,          *)
(* clientWasConnected) and the registered components.  One call of         *)
(* coordinationLoop is the sequence of steps                               *)
(*   boot, update, [update-write], handle, [ap-done | ap-client], web,     *)
(*   start, events ..., sleep                                              *)
(* between which the WiFi stack's notifications may arrive.                *)
(***************************************************************************)
\* member initialisers (Core.h:108-123) and the statics' initial values, with
\* the components registered as setup() registers them; serverRunning is the
\* WebServerManager's member
CoreMembers ==
    [currentState |-> "BOOTING", stateStartTime |-> 0,
     lastWiFiState |-> "DISCONNECTED", clientWasConnected |-> FALSE,
     uiTaskHandle |-> FALSE, serverRunning |-> FALSE,
     wifi |-> TRUE, webServer |-> TRUE, ledManager |-> TRUE,
     \* the local event of processEvents, while its loop runs
     event |-> NoEvent]

\* what the model records about the coordinator: the last step, the argument
\* of its setState, the fallback owed, the provisioning submissions, and how
\* the boot went - "saved" or "cnf0" (no credentials stored) in the call that
\* left BOOTING, "ap1" or "err1" in the call after a "cnf0" call that ended
\* with the access point up or not, "done" from then on
NoCoreObs ==
    [op |-> "none", setArg |-> "none", owed |-> "none", submits |-> 0,
     boot |-> "none",
     \* what the web server dispatched in the step just taken
     request |-> "none"]

CoreInit ==
    /\ core = CoreMembers
    /\ corePc = "setup"
    /\ coreObs = NoCoreObs
    /\ uiTask = "update"

\* Core::setState, at time t
CoreSetStateMutAlways(C, state, t) ==
    [C EXCEPT !.currentState = state, !.stateStartTime = t]

CoreSetState(C, state, t) ==
    IF C.currentState # state
    THEN [C EXCEPT !.currentState = state, !.stateStartTime = t]
    ELSE C

\* the Network States on which the fallback to the access point is owed
FallbackStatesMutNoCredentialCase == {"TIMEOUT", "ERROR"}

FallbackStates == {"CREDENTIAL_NOT_FOUND", "TIMEOUT", "ERROR"}

\* the fallback becomes owed when the Network State becomes one of them
Owe(owed) ==
    IF wifi'.currentState \in FallbackStates /\ wifi'.currentState # wifi.currentState
    THEN "new" ELSE owed

\* what a step of the coordinator records
Observe(op, setArg, owed) ==
    coreObs' = [coreObs EXCEPT !.op = op, !.setArg = setArg, !.owed = owed,
                               !.request = "none"]

\* several LED commands sent one after the other
RECURSIVE sendLEDEvents(_, _)
sendLEDEvents(q, es) ==
    IF es = <<>> THEN q ELSE sendLEDEvents(sendLEDEventTo(q, Head(es)), Tail(es))

LedSends(es) ==
    ledEventQueue' = IF core.ledManager THEN sendLEDEvents(ledEventQueue, es)
                     ELSE ledEventQueue

Flash(c, brightness, duration) == LEDEvent("FLASH_COLOR", c, brightness, duration, FALSE)
Loading(on) == LEDEvent("SET_LOADING", Black, 0, 0, on)

\* Core::startUITask; created: xTaskCreatePinnedToCore produced a task
startUITask(created, ledOk) ==
    /\ corePc = "setup"
    /\ IF core.uiTaskHandle
       THEN /\ UNCHANGED <<core, ledTask>>
            /\ Observe("startUITask", "none", coreObs.owed)
       ELSE IF created
       THEN /\ core' = [core EXCEPT !.uiTaskHandle = TRUE]
            /\ ledTask' = IF core.ledManager /\ ~ledTask.running
                          THEN [running |-> ledOk, pc |-> "events"] ELSE ledTask
            /\ Observe("startUITask", "none", coreObs.owed)
       ELSE /\ core' = CoreSetState(core, "ERROR", now)
            /\ UNCHANGED ledTask
            /\ Observe("startUITask", "ERROR", coreObs.owed)
    /\ corePc' = "setup-init"
    /\ UNCHANGED <<busVars, now, led, ledEventQueue, ledObs, netVars>>

\* Core::initialize
CoreInitialize ==
    /\ corePc = "setup-init"
    /\ initialize
    /\ core' = CoreSetState(core, "BOOTING", now)
    /\ Observe("initialize", "BOOTING", coreObs.owed)
    /\ corePc' = "boot"
    /\ UNCHANGED <<pendMain, pendUI, now, ledVars, netVars>>

\* Core::coordinationLoop's test of BOOTING and handleBootingState's test of
\* the uptime, at time t
BootDueMutLate(C, t) == C.currentState = "BOOTING" /\ t > BOOT_MS

BootDueMutAgain(C, t) == t >= BOOT_MS

BootDue(C, t) == C.currentState = "BOOTING" /\ t >= BOOT_MS

\* Core::coordinationLoop, the BOOTING test and Core::handleBootingState
handleBootingState ==
    /\ corePc = "boot"
    /\ IF BootDue(core, now)
       THEN /\ core' = CoreSetState(core, "INITIALIZING", now)
            /\ IF core.wifi
               THEN /\ sendToUI(Event("DISPLAY_WIFI_CONNECTING", 0, ""), 0)
                    /\ WiFiInit
               ELSE UNCHANGED <<busVars, netVars, now>>
            /\ coreObs' = [coreObs EXCEPT
                  !.op = "boot", !.setArg = "INITIALIZING",
                  !.owed = Owe(coreObs.owed),
                  !.boot = IF ~core.wifi THEN @
                           ELSE IF radio.saved THEN "saved" ELSE "cnf0"]
       ELSE /\ UNCHANGED <<core, busVars, netVars, now>>
            /\ Observe("boot", "none", coreObs.owed)
    /\ corePc' = IF core.wifi THEN "update" ELSE "start"
    /\ UNCHANGED ledVars

\* Core::coordinationLoop, wifi->update() up to its decision
CoreUpdate ==
    /\ corePc = "update"
    /\ WiFiUpdate
    /\ corePc' = IF wifiCall' = "update" THEN "update-write" ELSE "handle"
    /\ Observe("update", "none", coreObs.owed)
    /\ UNCHANGED <<core, busVars, ledVars>>

\* Core::coordinationLoop, wifi->update() writing TIMEOUT
CoreUpdateWrite ==
    /\ corePc = "update-write"
    /\ WiFiUpdateWrite
    /\ corePc' = "handle"
    /\ Observe("update", "none", Owe(coreObs.owed))
    /\ UNCHANGED <<core, busVars, ledVars>>

\* Core::handleWiFiConnection, the state-change switch
handleWiFiConnection ==
    /\ corePc = "handle"
    /\ LET cur == wifi.currentState
           kind == IF cur = core.lastWiFiState THEN "same"
                   ELSE IF cur \in FallbackStates THEN "fallback"
                   ELSE cur
           C1 == [core EXCEPT !.lastWiFiState = cur]
       IN /\ core' =
               CASE kind = "CONNECTING" -> CoreSetState(C1, "WIFI_CONNECTING", now)
                 [] kind = "CONNECTED" -> CoreSetState(C1, "READY", now)
                 [] kind = "AP_MODE" ->
                       [CoreSetState(C1, "WIFI_AP_MODE", now) EXCEPT
                           !.serverRunning = @ \/ core.webServer]
                 [] OTHER -> C1
          /\ CASE kind = "CONNECTING" -> LedSends(<<Loading(TRUE)>>)
               [] kind = "CONNECTED" -> LedSends(<<Loading(FALSE), Flash(Green, 255, 500)>>)
               [] kind = "AP_MODE" /\ core.webServer ->
                     LedSends(<<Flash(<<0, 100, 255>>, 255, 1000)>>)
               [] OTHER -> UNCHANGED ledEventQueue
          /\ CASE kind = "CONNECTED" -> sendToUI(Event("DISPLAY_WAKE_UP", 0, ""), 0)
               [] kind = "AP_MODE" /\ core.webServer ->
                     sendToUI(Event("DISPLAY_WIFI_AP_MODE", 0, "ssid|ip"), 0)
               [] OTHER -> UNCHANGED busVars
          /\ IF kind = "fallback" THEN WiFiSetupAP ELSE UNCHANGED <<netVars, now>>
          /\ Observe("handle",
                     CASE kind = "CONNECTING" -> "WIFI_CONNECTING"
                       [] kind = "CONNECTED" -> "READY"
                       [] kind = "AP_MODE" -> "WIFI_AP_MODE"
                       [] OTHER -> "none",
                     IF kind = "fallback" THEN "none"
                     ELSE IF coreObs.owed = "new" THEN "missed"
                     ELSE coreObs.owed)
          /\ corePc' = IF kind = "fallback" THEN "ap-done"
                       ELSE IF cur = "AP_MODE" THEN "ap-client"
                       ELSE "web"
    /\ UNCHANGED <<led, ledTask, ledObs>>

\* Core::handleWiFiConnection, wifi->setupAP() from the return of WiFi.softAP
CoreSetupAPDone(apStarted) ==
    /\ corePc = "ap-done"
    /\ WiFiSetupAPDone(apStarted)
    /\ corePc' = "web"
    /\ Observe("setupAP", "none", Owe(coreObs.owed))
    /\ UNCHANGED <<core, busVars, ledVars>>

\* Core::handleWiFiConnection, the access-point client monitor
CoreApClient(clientIsConnected) ==
    /\ corePc = "ap-client"
    /\ clientIsConnected => radio.ap
    /\ IF clientIsConnected /\ ~core.clientWasConnected
       THEN /\ sendToUI(Event("DISPLAY_WIFI_SETUP_URL", 0, "url"), 0)
            /\ LedSends(<<Flash(Green, 255, 300)>>)
       ELSE UNCHANGED <<busVars, ledEventQueue>>
    /\ core' = [core EXCEPT !.clientWasConnected = clientIsConnected]
    /\ corePc' = "web"
    /\ Observe("ap-client", "none", coreObs.owed)
    /\ UNCHANGED <<led, ledTask, ledObs, netVars, now>>

\* Core::coordinationLoop, webServer->update() while in AP_MODE.  request is
\* what WebServerManager::handleClient dispatches: nothing, handleConfig with
\* both fields ("config") or handleConfig with a field missing ("bad").  The
\* server accepts requests from its init() on (serverRunning), which
\* handleWiFiConnection calls when it sees AP_MODE.  WebPolled is the
\* coordinator's test before webServer->update().
WebPolledMutAlways == core.wifi /\ core.webServer

WebPolled == core.wifi /\ wifi.currentState = "AP_MODE" /\ core.webServer

\* handleConfig that does not test for the two fields
CoreWebServerMutNoTest(request) ==
    /\ corePc = "web"
    /\ (request # "none") =>
          /\ WebPolled /\ core.serverRunning
          /\ coreObs.submits < MaxSubmits
    /\ IF request # "none"
       THEN DoConnect("connect", DEFAULT_CONNECT_TIMEOUT, FALSE, FALSE,
                      saveCredentials(radio), now + 1000)
       ELSE UNCHANGED <<netVars, now>>
    /\ coreObs' = [coreObs EXCEPT !.op = "web", !.setArg = "none",
                                  !.submits = IF request = "none" THEN @ ELSE @ + 1,
                                  !.request = request]
    /\ corePc' = "start"
    /\ UNCHANGED <<core, busVars, ledVars>>

CoreWebServer(request) ==
    /\ corePc = "web"
    /\ (request # "none") =>
          /\ WebPolled /\ core.serverRunning
          /\ coreObs.submits < MaxSubmits
    /\ IF request = "config"
       THEN DoConnect("connect", DEFAULT_CONNECT_TIMEOUT, FALSE, FALSE,
                      saveCredentials(radio), now + 1000)
       ELSE UNCHANGED <<netVars, now>>
    /\ coreObs' = [coreObs EXCEPT !.op = "web", !.setArg = "none",
                                  !.submits = IF request = "none" THEN @ ELSE @ + 1,
                                  !.request = request]
    /\ corePc' = "start"
    /\ UNCHANGED <<core, busVars, ledVars>>

\* Core::coordinationLoop, the READY test and Core::start
CoreStartMutSkip ==
    /\ corePc = "start"
    /\ UNCHANGED core
    /\ Observe("start", "none", coreObs.owed)
    /\ corePc' = "events"
    /\ UNCHANGED <<busVars, ledVars, netVars, now>>

CoreStart ==
    /\ corePc = "start"
    /\ IF core.currentState = "READY"
       THEN /\ core' = CoreSetState(core, "RUNNING", now)
            /\ Observe("start", "RUNNING", coreObs.owed)
       ELSE /\ UNCHANGED core
            /\ Observe("start", "none", coreObs.owed)
    /\ corePc' = "events"
    /\ UNCHANGED <<busVars, ledVars, netVars, now>>

\* Core::processEvents, one receiveFromUI(event, 0) of its loop
processEvents ==
    /\ corePc = "events"
    /\ receiveFromUI(0)
    /\ core' = [core EXCEPT !.event = IF busRet'.ok THEN busRet'.event ELSE NoEvent]
    /\ corePc' = IF busRet'.ok THEN "event" ELSE "sleep"
    /\ Observe("events", "none", coreObs.owed)
    /\ UNCHANGED <<ledVars, netVars, now>>

\* the handlers forwarding a fresh event of the received type
handleEncoderEventMutFresh ==
    /\ corePc = "event"
    /\ LET event == core.event IN
       CASE event.type = "ENCODER_ROTATION" ->
               LedSends(<<LEDEvent("ACTIVATE", Black, 0, 0, FALSE)>>)
                  /\ sendToUI(Event(event.type, 0, ""), 0)
         [] event.type = "ENCODER_CLICK" ->
               LedSends(<<Flash(Green, 255, 200)>>) /\ sendToUI(Event(event.type, 0, ""), 0)
         [] event.type = "ENCODER_LONG_PRESS" ->
               LedSends(<<Flash(FlashOrange, 255, 500)>>)
                  /\ sendToUI(Event(event.type, 0, ""), 0)
         [] OTHER -> UNCHANGED <<busVars, ledEventQueue>>
    /\ corePc' = "events"
    /\ Observe("event", "none", coreObs.owed)
    /\ UNCHANGED <<core, led, ledTask, ledObs, netVars, now>>

\* Core::processEvents, the switch on the received event:
\* handleEncoderRotation, handleEncoderClick, handleEncoderLongPress
handleEncoderEvent ==
    /\ corePc = "event"
    /\ LET event == core.event IN
       CASE event.type = "ENCODER_ROTATION" ->
               LedSends(<<LEDEvent("ACTIVATE", Black, 0, 0, FALSE)>>) /\ sendToUI(event, 0)
         [] event.type = "ENCODER_CLICK" ->
               LedSends(<<Flash(Green, 255, 200)>>) /\ sendToUI(event, 0)
         [] event.type = "ENCODER_LONG_PRESS" ->
               LedSends(<<Flash(FlashOrange, 255, 500)>>) /\ sendToUI(event, 0)
         [] OTHER -> UNCHANGED <<busVars, ledEventQueue>>
    /\ corePc' = "events"
    /\ Observe("event", "none", coreObs.owed)
    /\ UNCHANGED <<core, led, ledTask, ledObs, netVars, now>>

\* loop(): delay(50) after coordinationLoop; the next call is d ms later
CoreSleep(d) ==
    /\ corePc = "sleep"
    /\ now' = now + d
    /\ corePc' = "boot"
    /\ coreObs' = [coreObs EXCEPT
          !.op = "sleep", !.setArg = "none",
          !.boot = CASE @ = "cnf0" ->
                          IF wifi.currentState = "AP_MODE" THEN "ap1" ELSE "err1"
                     [] @ = "none" -> "none"
                     [] OTHER -> "done"]
    /\ UNCHANGED <<core, busVars, ledVars, netVars>>

(***************************************************************************)
(* Core::runUITask (src/lib/core/Core.cpp): one iteration of the rendering *)
(* loop is the sequence update, movement, click, long, display ..., delay. *)
(***************************************************************************)
\* encoder->update()
UiUpdate ==
    /\ core.uiTaskHandle /\ uiTask = "update"
    /\ update
    /\ uiTask' = "movement"

\* encoder->getMovement() and the rotation event
UiMovement ==
    /\ uiTask = "movement"
    /\ getMovement
    /\ IF movementPending /\ movement # 0
       THEN sendToMain(Event("ENCODER_ROTATION", movement, ""), 0)
       ELSE UNCHANGED busVars
    /\ uiTask' = "click"

\* encoder->getClicked() and the click event
UiClick ==
    /\ uiTask = "click"
    /\ getClicked
    /\ IF clickPending
       THEN sendToMain(Event("ENCODER_CLICK", 0, ""), 0)
       ELSE UNCHANGED busVars
    /\ uiTask' = "long"

\* encoder->getLongPressed() and the long-press event
UiLongPress ==
    /\ uiTask = "long"
    /\ getLongPressed
    /\ IF longPressPending
       THEN sendToMain(Event("ENCODER_LONG_PRESS", 0, ""), 0)
       ELSE UNCHANGED busVars
    /\ uiTask' = "display"

\* display->update(): DisplayManager::update receives until the channel is empty
UiDisplay ==
    /\ uiTask = "display"
    /\ receiveFromMain(0)
    /\ uiTask' = IF busRet'.ok THEN "display" ELSE "delay"
    /\ UNCHANGED <<hwVars, encVars>>

\* vTaskDelayUntil: the next iteration starts d ms later
UiDelay(d) ==
    /\ uiTask = "delay"
    /\ now' = now + d
    /\ uiTask' = "update"
    /\ UNCHANGED <<pin, position, busVars>>

(***************************************************************************)
(* Environment: the clock, the button and the knob.                        *)
(***************************************************************************)
\* time passes in steps that let a press last 499, 500, 999, 1000, 2999, 3000 ms
EncSteps == {499, 500, 2000}

AdvanceEnc ==
    /\ \E d \in EncSteps : now + d <= EncMaxTime /\ now' = now + d
    /\ UNCHANGED <<pin, position>>

\* the user presses the button
PinPress ==
    /\ pin = "HIGH"
    /\ tally.presses < MaxPresses
    /\ pin' = "LOW"
    /\ tally' = [tally EXCEPT !.presses = @ + 1]
    /\ UNCHANGED <<now, position>>

\* the user turns the knob by one of the counts in D (4 counts are a detent)
KnobTurn(max, D) ==
    /\ tally.turns < max
    /\ \E d \in D : position' = position + d
    /\ tally' = [tally EXCEPT !.turns = @ + 1, !.rot = "none"]
    /\ UNCHANGED <<now, pin>>

\* the user releases it
PinRelease ==
    /\ pin = "LOW"
    /\ pin' = "HIGH"
    /\ UNCHANGED <<now, position, tally>>

\* an environment step is not an encoder call
EnvStep ==
    /\ encRet' = [encRet EXCEPT !.op = IF @ = "none" THEN "none" ELSE "env"]
    /\ UNCHANGED <<rotVars, buttonVars, press>>

(***************************************************************************)
(* PreferencesManager (src/lib/prefs/PreferencesManager.cpp).  nvs.inst    *)
(* holds the members of each instance: nvsMutex is "NULL" until init()     *)
(* creates it, then "free" or the context that holds it.  nvs.ctx is where *)
(* each execution context is: "idle", inside a begin()/end() "session", or *)
(* "blocked" in xSemaphoreTake; batches counts the beginBatch() calls of   *)
(* the context that returned true and that no endBatch() has matched yet.  *)
(* nvs.op is the last call and what it returned.  nvs.unowned records that  *)
(* some call gave a mutex its context did not hold.  A context is at       *)
(* "clearing" inside the session clear() opens and at "reinit" between     *)
(* the two end() calls of clear().                                         *)
(***************************************************************************)
\* Core::prefs (Core.h:122) and WiFiManager::prefs (WiFiManager.h:300)
PrefInstances == {"Core::prefs", "WiFiManager::prefs"}

\* the coordination loop (serial commands, connectWithSavedCredentials, the
\* provisioning handler) and the WiFi stack's event callback (saveCredentials)
PrefContexts == {"coordinator", "wifiStack"}

PrefUses(c) == IF c = "wifiStack" THEN {"WiFiManager::prefs"} ELSE PrefInstances

\* member initialisers (PreferencesManager.h:162-175)
PrefMembers == [batchOpen |-> FALSE, batchDepth |-> 0, nvsMutex |-> "NULL"]

IdleContext == [at |-> "idle", on |-> "none", want |-> "none", batches |-> 0]

NoPrefOp == [name |-> "none", ctx |-> "none", inst |-> "none", ret |-> FALSE]

PrefInit ==
    nvs = [inst |-> [i \in PrefInstances |-> PrefMembers],
           ctx |-> [c \in PrefContexts |-> IdleContext],
           op |-> NoPrefOp,
           unowned |-> FALSE]

\* if (nvsMutex != NULL) xSemaphoreTake(nvsMutex, portMAX_DELAY): returns at
\* once without a mutex, and with one only when no context holds it (the
\* mutex of xSemaphoreCreateMutex is not recursive)
MutexAvailable(P) == P.nvsMutex \in {"NULL", "free"}

TakeMutex(P, c) == IF P.nvsMutex = "NULL" THEN P ELSE [P EXCEPT !.nvsMutex = c]

\* if (nvsMutex != NULL) xSemaphoreGive(nvsMutex)
GiveMutex(P) == IF P.nvsMutex = "NULL" THEN P ELSE [P EXCEPT !.nvsMutex = "free"]

\* xSemaphoreGive by a context that does not hold the mutex
Unowned(P, c) == P.nvsMutex \notin {"NULL", c}

PrefOp(name, c, i, ret) == [name |-> name, ctx |-> c, inst |-> i, ret |-> ret]

\* the calling context waits in xSemaphoreTake
PrefBlock(c, i, want) ==
    [nvs EXCEPT !.ctx[c] = [@ EXCEPT !.at = "blocked", !.on = i, !.want = want]]

\* PreferencesManager::begin once the mutex is passed
PrefBeginBody(c, i) ==
    [nvs EXCEPT !.inst[i] = TakeMutex(@, c),
                !.ctx[c] = [@ EXCEPT !.at = "session", !.on = i, !.want = "none"]]

\* PreferencesManager::beginBatch once the mutex is passed; opened: whether
\* one of the three preferences.begin() attempts succeeds
beginBatchBody(c, i, opened) ==
    LET P == TakeMutex(nvs.inst[i], c)
        ok == P.batchOpen \/ opened
        Q == IF P.batchOpen THEN [P EXCEPT !.batchDepth = @ + 1]
             ELSE IF opened THEN [P EXCEPT !.batchOpen = TRUE, !.batchDepth = 1]
             ELSE GiveMutex(P)
        n == nvs.ctx[c].batches + (IF ok THEN 1 ELSE 0)
    IN [nvs EXCEPT !.inst[i] = Q,
                   !.ctx[c] = [at |-> "idle", on |-> IF n > 0 THEN i ELSE "none",
                               want |-> "none", batches |-> n]]

\* PreferencesManager::init, called before the instance is used: the mutex is
\* created (made: whether
\* xSemaphoreCreateMutex succeeds), then initDeviceSettings() opens its first
\* session with get(); its later get() and save() calls are further sessions
\* of the same context
PrefsManagerInit(c, i, made) ==
    /\ \A k \in PrefContexts : nvs.ctx[k] = IdleContext
    /\ nvs.inst[i] = PrefMembers
    /\ LET P == [nvs.inst[i] EXCEPT !.nvsMutex = IF made THEN "free" ELSE "NULL"]
       IN nvs' = [nvs EXCEPT
             !.inst[i] = TakeMutex(P, c),
             !.ctx[c] = [@ EXCEPT !.at = "session", !.on = i],
             !.op = PrefOp("init", c, i, made)]

\* PreferencesManager::begin, as called by get, save, getWiFiSSID,
\* getWiFiPassword, saveWiFiCredentials, clear and clearAll
PrefBegin(c, i) ==
    /\ nvs.ctx[c] = IdleContext
    /\ nvs' = [(IF MutexAvailable(nvs.inst[i]) THEN PrefBeginBody(c, i)
                ELSE PrefBlock(c, i, "session"))
               EXCEPT !.op = PrefOp("begin", c, i, TRUE)]

\* PreferencesManager::end
PrefEnd(c, i) ==
    /\ nvs.ctx[c].at = "session" /\ nvs.ctx[c].on = i
    /\ nvs' = [nvs EXCEPT !.inst[i] = GiveMutex(@),
                          !.ctx[c] = IdleContext,
                          !.op = PrefOp("end", c, i, TRUE),
                          !.unowned = @ \/ Unowned(nvs.inst[i], c)]

\* PreferencesManager::clear once the mutex of its begin(false) is passed
PrefClearBody(c, i) ==
    [PrefBeginBody(c, i) EXCEPT !.ctx[c].at = "clearing"]

\* PreferencesManager::clear, its begin(false)
PrefClearBegin(c, i) ==
    /\ nvs.ctx[c] = IdleContext
    /\ nvs' = [(IF MutexAvailable(nvs.inst[i]) THEN PrefClearBody(c, i)
                ELSE PrefBlock(c, i, "clear"))
               EXCEPT !.op = PrefOp("clear", c, i, FALSE)]

\* PreferencesManager::clear: preferences.clear() and the first end()
PrefClearEnd(c, i) ==
    /\ nvs.ctx[c].at = "clearing" /\ nvs.ctx[c].on = i
    /\ nvs' = [nvs EXCEPT !.inst[i] = GiveMutex(@),
                          !.ctx[c] = [@ EXCEPT !.at = "reinit"],
                          !.op = PrefOp("clear", c, i, FALSE),
                          !.unowned = @ \/ Unowned(nvs.inst[i], c)]

\* PreferencesManager::clear, the rest: preferences.begin(space, false) without
\* taking the mutex, preferences.clear() and the second end()
PrefClearReinit(c, i) ==
    /\ nvs.ctx[c].at = "reinit" /\ nvs.ctx[c].on = i
    /\ nvs' = [nvs EXCEPT !.inst[i] = GiveMutex(@),
                          !.ctx[c] = IdleContext,
                          !.op = PrefOp("clear", c, i, TRUE),
                          !.unowned = @ \/ Unowned(nvs.inst[i], c)]

\* PreferencesManager::beginBatch
beginBatch(c, i, opened) ==
    /\ nvs.ctx[c].at = "idle" /\ nvs.ctx[c].on \in {"none", i}
    /\ nvs.inst[i].batchDepth < MaxBatchDepth
    /\ nvs.ctx[c].batches < MaxBatchDepth
    /\ nvs' = IF MutexAvailable(nvs.inst[i])
              THEN [beginBatchBody(c, i, opened) EXCEPT
                       !.op = PrefOp("beginBatch", c, i,
                                     nvs.inst[i].batchOpen \/ opened)]
              ELSE [PrefBlock(c, i, "batch") EXCEPT
                       !.op = PrefOp("beginBatch", c, i, FALSE)]

\* PreferencesManager::endBatch, also by a context with no batch of its own
endBatch(c, i) ==
    /\ nvs.ctx[c].at = "idle" /\ nvs.ctx[c].on \in {"none", i}
    /\ LET P == nvs.inst[i]
           gives == IF ~P.batchOpen THEN P.batchDepth > 0 ELSE P.batchDepth - 1 <= 0
           Q == IF ~P.batchOpen
                THEN IF P.nvsMutex # "NULL" /\ P.batchDepth > 0
                     THEN [GiveMutex(P) EXCEPT !.batchDepth = 0]
                     ELSE P
                ELSE IF P.batchDepth - 1 > 0
                THEN [P EXCEPT !.batchDepth = @ - 1]
                ELSE GiveMutex([P EXCEPT !.batchOpen = FALSE, !.batchDepth = 0])
           n == IF nvs.ctx[c].batches > 0 THEN nvs.ctx[c].batches - 1 ELSE 0
       IN nvs' = [nvs EXCEPT
             !.inst[i] = Q,
             !.ctx[c] = [@ EXCEPT !.batches = n, !.on = IF n > 0 THEN i ELSE "none"],
             !.op = PrefOp("endBatch", c, i, TRUE),
             !.unowned = @ \/ (gives /\ Unowned(P, c))]

\* xSemaphoreTake returns in a context that waited: the call goes on
PrefResume(c, opened) ==
    /\ nvs.ctx[c].at = "blocked"
    /\ MutexAvailable(nvs.inst[nvs.ctx[c].on])
    /\ LET i == nvs.ctx[c].on
           N == IF nvs.ctx[c].want = "batch" THEN beginBatchBody(c, i, opened)
                ELSE IF nvs.ctx[c].want = "clear" THEN PrefClearBody(c, i)
                ELSE PrefBeginBody(c, i)
       IN nvs' = [N EXCEPT !.op = PrefOp("resume", c, i, TRUE)]

(***************************************************************************)
(* SpecBus: the Event Bus under arbitrary callers.                         *)
(***************************************************************************)
HwInit == now = 0 /\ pin = "HIGH" /\ position = 0

InFlightMarked == Marked(uiToMainQueue) + Marked(mainToUIQueue)

MaySend(ev) == ev = MarkedEvent => InFlightMarked < MaxMarked

BusInitialize == initialize /\ UNCHANGED <<hwVars, encVars, ledVars, netVars, coreVars, uiTask, nvs>>

BusSendToUI ==
    \E ev \in BusEvents, t \in Timeouts :
        MaySend(ev) /\ sendToUI(ev, t) /\ UNCHANGED <<hwVars, encVars, ledVars, netVars, coreVars, uiTask, nvs>>

BusReceiveFromMain ==
    \E t \in Timeouts : receiveFromMain(t) /\ UNCHANGED <<hwVars, encVars, ledVars, netVars, coreVars, uiTask, nvs>>

BusSendToMain ==
    \E ev \in BusEvents, t \in Timeouts :
        MaySend(ev) /\ sendToMain(ev, t) /\ UNCHANGED <<hwVars, encVars, ledVars, netVars, coreVars, uiTask, nvs>>

BusReceiveFromUI ==
    \E t \in Timeouts : receiveFromUI(t) /\ UNCHANGED <<hwVars, encVars, ledVars, netVars, coreVars, uiTask, nvs>>

InitBus == BusInit /\ PrefInit /\ HwInit /\ EncInit /\ LedInit /\ NetInit /\ CoreInit

NextBus ==
    \/ BusInitialize
    \/ BusSendToUI
    \/ BusReceiveFromMain
    \/ BusSendToMain
    \/ BusReceiveFromUI

SpecBus == InitBus /\ [][NextBus]_vars

(***************************************************************************)
(* SpecBusInit: the Event Bus whose initialize() runs step by step while   *)
(* the rendering task, started before it, already sends and receives.      *)
(***************************************************************************)
BusInitOthers == UNCHANGED <<hwVars, encVars, ledVars, netVars, coreVars, uiTask, nvs>>

BusInitUiToMain == initializeUiToMain /\ BusInitOthers
BusInitMainToUI == initializeMainToUI /\ BusInitOthers
BusInitMark == initializeMark /\ BusInitOthers

NextBusInit ==
    \/ BusInitUiToMain
    \/ BusInitMainToUI
    \/ BusInitMark
    \/ BusSendToUI
    \/ BusReceiveFromMain
    \/ BusSendToMain
    \/ BusReceiveFromUI

SpecBusInit == InitBus /\ [][NextBusInit]_vars

(***************************************************************************)
(* SpecEnc: the button side of the encoder under any interleaving of       *)
(* update() and the consuming accessors, any polling rate.                 *)
(***************************************************************************)
InitEnc ==
    /\ BusInit /\ PrefInit
    /\ EncInit
    /\ LedInit
    /\ NetInit
    /\ CoreInit
    /\ now = 0
    /\ pin \in {"HIGH", "LOW"}
    /\ position = 0

EncDoInit == EncoderInit /\ UNCHANGED <<busVars, ledVars, netVars, coreVars, uiTask, nvs>>
EncUpdate == update /\ UNCHANGED <<busVars, ledVars, netVars, coreVars, uiTask, nvs>>
EncGetClicked == getClicked /\ UNCHANGED <<busVars, ledVars, netVars, coreVars, uiTask, nvs>>
EncGetLongPressed == getLongPressed /\ UNCHANGED <<busVars, ledVars, netVars, coreVars, uiTask, nvs>>
EncGetUltraLongPressed == getUltraLongPressed /\ UNCHANGED <<busVars, ledVars, netVars, coreVars, uiTask, nvs>>
EncAdvance == AdvanceEnc /\ EnvStep /\ UNCHANGED <<busVars, ledVars, netVars, coreVars, uiTask, nvs, tally>>
EncPinPress == PinPress /\ EnvStep /\ UNCHANGED <<busVars, ledVars, netVars, coreVars, uiTask, nvs>>
EncPinRelease == PinRelease /\ EnvStep /\ UNCHANGED <<busVars, ledVars, netVars, coreVars, uiTask, nvs>>

NextEnc ==
    \/ EncDoInit
    \/ EncUpdate
    \/ EncGetClicked
    \/ EncGetLongPressed
    \/ EncGetUltraLongPressed
    \/ EncAdvance
    \/ EncPinPress
    \/ EncPinRelease

SpecEnc == InitEnc /\ [][NextEnc]_vars

(***************************************************************************)
(* SpecLed: the LED animation task, with commands sent by other contexts.  *)
(***************************************************************************)
\* the periods between two ticks of the animation task (20 ms nominal; longer
\* when the task is delayed), chosen so that the sweep can complete
LedSteps(t) == IF t < LedFineUntil THEN {100} ELSE {600, 3000}

\* the commands other contexts send
ThemeNames == {"azure", "green"}
ThemeColors == {Palette(n) : n \in ThemeNames}
FlashDurations == {200, 1000}

OtherUnchanged == UNCHANGED <<busVars, encVars, netVars, coreVars, uiTask, nvs, pin, position>>

InitLed == BusInit /\ PrefInit /\ HwInit /\ EncInit /\ LedInit /\ NetInit /\ CoreInit

LedDoInit ==
    /\ ~ledObs.inited
    /\ \E qok \in BOOLEAN, c \in ThemeColors : LEDManagerInit(qok, c)
    /\ UNCHANGED now /\ OtherUnchanged

LedStart ==
    /\ ledObs.inited
    /\ \E ok \in BOOLEAN : startAnimationTask(ok)
    /\ UNCHANGED now /\ OtherUnchanged

LedCommand(cmd) ==
    /\ ledObs.inited
    /\ ledObs.sent < MaxLedCmds
    /\ cmd
    /\ ledObs' = [ledObs EXCEPT !.sent = @ + 1]
    /\ UNCHANGED <<ledTask, now>> /\ OtherUnchanged

LedSetLoading == \E on \in BOOLEAN : LedCommand(setLoadingState(on))
LedFlash == \E d \in FlashDurations : LedCommand(flashColor(Green, 255, d))
LedActivate == LedCommand(activate)
LedTouch == LedCommand(updateLastEncoderMovementTime)
LedSetMainColor == \E n \in ThemeNames : LedCommand(setMainColor(n))
LedTickEvent == LedProcessEvent /\ OtherUnchanged
LedTickAnimate == LedUpdateAnimations /\ OtherUnchanged
LedTickDelay ==
    /\ \E d \in LedSteps(now) : now + d <= LedMaxTime /\ LedDelay(d)
    /\ OtherUnchanged
LedTickFault == LedReceiveNull /\ OtherUnchanged

NextLed ==
    \/ LedDoInit
    \/ LedStart
    \/ LedSetLoading
    \/ LedFlash
    \/ LedActivate
    \/ LedTouch
    \/ LedSetMainColor
    \/ LedTickEvent
    \/ LedTickAnimate
    \/ LedTickDelay
    \/ LedTickFault

SpecLed == InitLed /\ [][NextLed]_vars

(***************************************************************************)
(* SpecIdle: the LED animation task observed past the inactivity window,   *)
(* with the commands that touch the window (ACTIVATE, SET_LOADING).        *)
(***************************************************************************)
\* the periods between two ticks: as in SpecLed, without the long delays
IdleSteps(t) == IF t < LedFineUntil THEN {100} ELSE {600}

IdleLedInit ==
    /\ ~ledObs.inited
    /\ LEDManagerInit(TRUE, Azure)
    /\ UNCHANGED now /\ OtherUnchanged

IdleStart ==
    /\ ledObs.inited /\ ~ledTask.running
    /\ startAnimationTask(TRUE)
    /\ UNCHANGED now /\ OtherUnchanged

IdleCommand(cmd) ==
    /\ ledTask.running
    /\ ledObs.sent < MaxIdleCmds
    /\ cmd
    /\ ledObs' = [ledObs EXCEPT !.sent = @ + 1]
    /\ UNCHANGED <<ledTask, now>> /\ OtherUnchanged

IdleActivate == IdleCommand(activate) /\ OtherUnchanged
IdleSetLoading == \E on \in BOOLEAN : IdleCommand(setLoadingState(on))
IdleTickDelay ==
    /\ \E d \in IdleSteps(now) : now + d <= IdleMaxTime /\ LedDelay(d)
    /\ OtherUnchanged

NextIdle ==
    \/ IdleLedInit
    \/ IdleStart
    \/ IdleActivate
    \/ IdleSetLoading
    \/ LedTickEvent
    \/ LedTickAnimate
    \/ IdleTickDelay

SpecIdle == InitLed /\ [][NextIdle]_vars

(***************************************************************************)
(* SpecNet: the WiFiManager called freely from one context, the WiFi       *)
(* stack's notifications arriving from another.                            *)
(***************************************************************************)
\* the clock advances in steps that reach a timeout exactly and just past it
NetSteps == {4999, 5001}

ConnectTimeouts == {DEFAULT_CONNECT_TIMEOUT, 5000}

NetOthers == UNCHANGED <<busVars, encVars, ledVars, coreVars, uiTask, nvs, pin, position>>

InitNet ==
    /\ BusInit /\ PrefInit /\ HwInit /\ EncInit /\ LedInit /\ CoreInit
    /\ \E saved \in BOOLEAN : NetInitWith(saved)

NetDoInit == wifiCall = "none" /\ ~wifi.initialized /\ WiFiInit /\ NetOthers
NetConnect ==
    /\ netObs.connects < MaxConnects
    /\ \E timeout \in ConnectTimeouts : DoConnect("connect", timeout, FALSE, FALSE, radio, now)
    /\ NetOthers
NetReconnect == netObs.connects < MaxConnects /\ WiFiReconnect /\ NetOthers
NetUpdate == WiFiUpdate /\ NetOthers
NetUpdateWrite == WiFiUpdateWrite /\ NetOthers
NetDisconnect == WiFiDisconnect /\ NetOthers
NetSetupAP == WiFiSetupAP /\ NetOthers
NetSetupAPDone == (\E ok \in BOOLEAN : WiFiSetupAPDone(ok)) /\ NetOthers
NetStartWPS == WiFiStartWPS /\ NetOthers
NetStopWPS == WiFiStopWPS /\ NetOthers
NetGotIP == OnGotIP /\ NetOthers
NetGotIPSetState == OnGotIPSetState /\ NetOthers
NetGotIPTimeSync == OnGotIPTimeSync /\ NetOthers
NetStaDisconnected == OnStaDisconnected /\ NetOthers
NetWPS == (\E ok \in BOOLEAN : OnWPS(ok)) /\ NetOthers
NetAdvance ==
    /\ \E d \in NetSteps : now + d <= NetMaxTime /\ now' = now + d
    /\ netObs' = [netObs EXCEPT !.op = "clock", !.apFrom = "none"]
    /\ UNCHANGED <<wifi, radio, wifiCall>>
    /\ NetOthers

NextNet ==
    \/ NetDoInit
    \/ NetConnect
    \/ NetReconnect
    \/ NetUpdate
    \/ NetUpdateWrite
    \/ NetDisconnect
    \/ NetSetupAP
    \/ NetSetupAPDone
    \/ NetStartWPS
    \/ NetStopWPS
    \/ NetGotIP
    \/ NetGotIPSetState
    \/ NetGotIPTimeSync
    \/ NetStaDisconnected
    \/ NetWPS
    \/ NetAdvance

SpecNet == InitNet /\ [][NextNet]_vars

(***************************************************************************)
(* Spec: the coordinator with the Network Manager and the WiFi stack's     *)
(* notifications, while the rendering context emits no event.              *)
(***************************************************************************)
\* the periods between two calls of coordinationLoop (50 ms nominal)
CoreSteps == {2000, 11000}

SysOthers == UNCHANGED <<encVars, pin, position, uiTask, nvs>>

\* the uptime at which setup() reaches the Core calls, after the hardware
\* components' own initialisation
SetupTimes == {0, 150}

Init ==
    /\ BusInit /\ PrefInit /\ EncInit /\ LedInit /\ CoreInit
    /\ \E saved \in BOOLEAN : NetInitWith(saved)
    /\ now \in SetupTimes /\ pin = "HIGH" /\ position = 0

SysStartUITask == (\E created \in BOOLEAN, ledOk \in BOOLEAN : startUITask(created, ledOk)) /\ SysOthers
SysInitialize == CoreInitialize /\ SysOthers
SysBoot == handleBootingState /\ SysOthers
SysUpdate == CoreUpdate /\ SysOthers
SysUpdateWrite == CoreUpdateWrite /\ SysOthers
SysHandle == handleWiFiConnection /\ SysOthers
SysSetupAPDone == (\E ok \in BOOLEAN : CoreSetupAPDone(ok)) /\ SysOthers
SysApClient == (\E c \in BOOLEAN : CoreApClient(c)) /\ SysOthers
SysWebServer == (\E r \in {"none", "config", "bad"} : CoreWebServer(r)) /\ SysOthers
SysStart == CoreStart /\ SysOthers
SysEvents == processEvents /\ SysOthers
SysSleep ==
    /\ \E d \in CoreSteps : now + d <= CoreMaxTime /\ CoreSleep(d)
    /\ SysOthers
SysGotIP == OnGotIP /\ UNCHANGED <<busVars, ledVars, coreVars>> /\ SysOthers
SysGotIPSetState ==
    OnGotIPSetState /\ UNCHANGED <<busVars, ledVars, coreVars>> /\ SysOthers
SysGotIPTimeSync ==
    OnGotIPTimeSync /\ UNCHANGED <<busVars, ledVars, coreVars>> /\ SysOthers
SysStaDisconnected ==
    OnStaDisconnected /\ UNCHANGED <<busVars, ledVars, coreVars>> /\ SysOthers
Next ==
    \/ SysStartUITask
    \/ SysInitialize
    \/ SysBoot
    \/ SysUpdate
    \/ SysUpdateWrite
    \/ SysHandle
    \/ SysSetupAPDone
    \/ SysApClient
    \/ SysWebServer
    \/ SysStart
    \/ SysEvents
    \/ SysSleep
    \/ SysGotIP
    \/ SysGotIPSetState
    \/ SysGotIPTimeSync
    \/ SysStaDisconnected

Spec == Init /\ [][Next]_vars

(***************************************************************************)
(* SpecLive: the same system with a coordination loop that never stops.    *)
(* Up to CoreMaxTime every delay advances the clock; after it the clock    *)
(* runs on only while a connection attempt is waiting for its deadline,    *)
(* the one thing the coordinator's side still reads the clock for.  The    *)
(* loop is scheduled fairly, and so is a handler of the WiFi stack once it *)
(* has started.  Nothing is assumed about the outcome of the boot attempt  *)
(* or of WiFi.softAP(); the run is one in which the station stays          *)
(* associated once it is and nobody opens the provisioning pages, so the   *)
(* web server's turn of the loop finds no request.                         *)
(***************************************************************************)
AttemptPending == wifi.currentState = "CONNECTING" /\ ~TimedOut(wifi, now)

LiveSleep ==
    /\ \E d \in CoreSteps :
          CoreSleep(IF now + d <= CoreMaxTime \/ AttemptPending THEN d ELSE 0)
    /\ SysOthers

LiveWebServer == CoreWebServer("none") /\ SysOthers

CoordinatorStep ==
    \/ SysStartUITask
    \/ SysInitialize
    \/ SysBoot
    \/ SysUpdate
    \/ SysUpdateWrite
    \/ SysHandle
    \/ SysSetupAPDone
    \/ SysApClient
    \/ LiveWebServer
    \/ SysStart
    \/ SysEvents
    \/ LiveSleep

NextLive ==
    \/ CoordinatorStep
    \/ SysGotIP
    \/ SysGotIPSetState
    \/ SysGotIPTimeSync

SpecLive ==
    /\ Init /\ [][NextLive]_vars
    /\ WF_vars(CoordinatorStep)
    /\ WF_vars(SysGotIPSetState)
    /\ WF_vars(SysGotIPTimeSync)

(***************************************************************************)
(* SpecUI: the rendering loop with the encoder, the user, and a            *)
(* coordinator that has only the encoder and the display registered.       *)
(***************************************************************************)
UiSteps == {400, 3000}

InitUI ==
    /\ BusInit /\ PrefInit /\ HwInit /\ EncInit /\ LedInit /\ NetInit
    /\ core = [CoreMembers EXCEPT !.wifi = FALSE, !.webServer = FALSE,
                                  !.ledManager = FALSE]
    /\ corePc = "setup"
    /\ coreObs = NoCoreObs
    /\ uiTask = "update"

UiIdle == UNCHANGED <<ledVars, netVars, coreVars, nvs>>
UiCoreIdle == UNCHANGED <<encVars, pin, position, uiTask, nvs>>

\* setup(): encoder.init() before the Core calls
UiSetupEncoder == corePc = "setup" /\ EncoderInit /\ UNCHANGED <<busVars, uiTask>> /\ UiIdle
UiStartUITask ==
    /\ encRet.op # "none"
    /\ \E ledOk \in BOOLEAN : startUITask(TRUE, ledOk)
    /\ UiCoreIdle
UiInitialize == CoreInitialize /\ UiCoreIdle
UiBoot == handleBootingState /\ UiCoreIdle
UiCoreStart == CoreStart /\ UiCoreIdle
UiCoreEvents == processEvents /\ UiCoreIdle
UiCoreEvent == handleEncoderEvent /\ UiCoreIdle
\* the clock is advanced by the rendering task's delay
UiCoreSleep == CoreSleep(0) /\ UiCoreIdle
UiLoopUpdate == UiUpdate /\ UNCHANGED busVars /\ UiIdle
UiLoopMovement == UiMovement /\ UiIdle
UiLoopClick == UiClick /\ UiIdle
UiLoopLongPress == UiLongPress /\ UiIdle
UiLoopDisplay == UiDisplay /\ UiIdle
UiLoopDelay ==
    /\ \E d \in UiSteps : now + d <= UiMaxTime /\ UiDelay(d)
    /\ EnvStep /\ UNCHANGED tally /\ UiIdle
\* the user acts between two iterations: the button level and the count are
\* sampled by update() only
UiPinPress ==
    uiTask = "delay" /\ PinPress /\ EnvStep /\ UNCHANGED <<busVars, uiTask>> /\ UiIdle
UiPinRelease ==
    uiTask = "delay" /\ PinRelease /\ EnvStep /\ UNCHANGED <<busVars, uiTask>> /\ UiIdle
\* the user turns the knob by one detent
UiTurn ==
    /\ uiTask = "delay"
    /\ KnobTurn(MaxTurns, {-4, 4})
    /\ EnvStep
    /\ UNCHANGED <<busVars, uiTask>> /\ UiIdle

NextUI ==
    \/ UiSetupEncoder
    \/ UiStartUITask
    \/ UiInitialize
    \/ UiBoot
    \/ UiCoreStart
    \/ UiCoreEvents
    \/ UiCoreEvent
    \/ UiCoreSleep
    \/ UiLoopUpdate
    \/ UiLoopMovement
    \/ UiLoopClick
    \/ UiLoopLongPress
    \/ UiLoopDisplay
    \/ UiLoopDelay
    \/ UiPinPress
    \/ UiPinRelease
    \/ UiTurn

SpecUI == InitUI /\ [][NextUI]_vars

(***************************************************************************)
(* SpecRot: the rotation decoder under arbitrary callers of update() and   *)
(* getMovement(); the button is left alone.                                *)
(***************************************************************************)
RotOthers == UNCHANGED <<busVars, ledVars, netVars, coreVars, uiTask, nvs>>

InitRot == BusInit /\ PrefInit /\ HwInit /\ EncInit /\ LedInit /\ NetInit /\ CoreInit

RotDoInit == EncoderInit /\ RotOthers
RotUpdate == update /\ RotOthers
RotGetMovement == getMovement /\ RotOthers
RotTurn == encRet.op # "none" /\ KnobTurn(MaxRotations, {-4, -2, 2, 4}) /\ EnvStep /\ RotOthers

NextRot ==
    \/ RotDoInit
    \/ RotUpdate
    \/ RotGetMovement
    \/ RotTurn

SpecRot == InitRot /\ [][NextRot]_vars

(***************************************************************************)
(* SpecPrefs: the contexts of the firmware using the persistent store.     *)
(***************************************************************************)
PrefOthers == UNCHANGED <<busVars, hwVars, encVars, ledVars, netVars, coreVars, uiTask>>

InitPrefs == BusInit /\ PrefInit /\ HwInit /\ EncInit /\ LedInit /\ NetInit /\ CoreInit

PrefDoInit ==
    (\E i \in PrefInstances, made \in BOOLEAN : PrefsManagerInit("coordinator", i, made))
    /\ PrefOthers
PrefDoBegin == (\E c \in PrefContexts : \E i \in PrefUses(c) : PrefBegin(c, i)) /\ PrefOthers
PrefDoEnd == (\E c \in PrefContexts : \E i \in PrefUses(c) : PrefEnd(c, i)) /\ PrefOthers
PrefDoBeginBatch ==
    (\E c \in PrefContexts, opened \in BOOLEAN : \E i \in PrefUses(c) :
        beginBatch(c, i, opened)) /\ PrefOthers
PrefDoEndBatch == (\E c \in PrefContexts : \E i \in PrefUses(c) : endBatch(c, i)) /\ PrefOthers
PrefDoResume ==
    (\E c \in PrefContexts, opened \in BOOLEAN : PrefResume(c, opened)) /\ PrefOthers
PrefDoClearBegin ==
    (\E c \in PrefContexts : \E i \in PrefUses(c) : PrefClearBegin(c, i)) /\ PrefOthers
PrefDoClearEnd ==
    (\E c \in PrefContexts : \E i \in PrefUses(c) : PrefClearEnd(c, i)) /\ PrefOthers
PrefDoClearReinit ==
    (\E c \in PrefContexts : \E i \in PrefUses(c) : PrefClearReinit(c, i)) /\ PrefOthers

NextPrefs ==
    \/ PrefDoInit
    \/ PrefDoBegin
    \/ PrefDoEnd
    \/ PrefDoBeginBatch
    \/ PrefDoEndBatch
    \/ PrefDoResume
    \/ PrefDoClearBegin
    \/ PrefDoClearEnd
    \/ PrefDoClearReinit

SpecPrefs == InitPrefs /\ [][NextPrefs]_vars

(***************************************************************************)
(* SpecLoading: the system of Spec in a firmware whose setup() has also    *)
(* initialised the LED manager, so that the coordinator's LED commands are *)
(* queued.  The animation task is not scheduled here: the queue keeps the  *)
(* commands in the order the coordinator sent them.                        *)
(***************************************************************************)
\* setup(): ledManager.init() before the Core calls
LoadLedInit ==
    /\ corePc = "setup" /\ ~ledObs.inited
    /\ \E c \in ThemeColors : LEDManagerInit(TRUE, c)
    /\ UNCHANGED <<busVars, netVars, coreVars, now>> /\ SysOthers
LoadStartUITask == ledObs.inited /\ SysStartUITask

NextLoading ==
    \/ LoadLedInit
    \/ LoadStartUITask
    \/ SysInitialize
    \/ SysBoot
    \/ SysUpdate
    \/ SysUpdateWrite
    \/ SysHandle
    \/ SysSetupAPDone
    \/ SysApClient
    \/ SysWebServer
    \/ SysStart
    \/ SysEvents
    \/ SysSleep
    \/ SysGotIP
    \/ SysGotIPSetState
    \/ SysGotIPTimeSync
    \/ SysStaDisconnected

SpecLoading == Init /\ [][NextLoading]_vars

(***************************************************************************)
(* SpecFwd: the path of the encoder events.  The rendering loop emits any  *)
(* of its three events in an iteration, the coordinator (encoder, display  *)
(* and LED manager registered, no network) drains and dispatches them, the *)
(* display receives what is forwarded.  An event carries in its value the  *)
(* serial number of its emission among the events still on their way, so   *)
(* that the order of two events can be read off them.  The animation task  *)
(* is not scheduled: the LED queue keeps what the coordinator sent.        *)
(***************************************************************************)
EncoderTypes == {"ENCODER_ROTATION", "ENCODER_CLICK", "ENCODER_LONG_PRESS"}

IsEncoderEvent(ev) == ev.type \in EncoderTypes

\* the event processEvents has received and not yet dispatched
InHand == IF corePc = "event" THEN <<core.event>> ELSE <<>>

\* the encoder events on their way to the display, oldest first
Pipeline ==
    SelectSeq(mainToUIQueue.items, IsEncoderEvent) \o InHand \o uiToMainQueue.items

Serials(es) == {es[i].value : i \in 1..Len(es)}

NextSerial ==
    LET S == Serials(Pipeline) \cup {0}
    IN 1 + CHOOSE m \in S : \A k \in S : k <= m

\* frames the rendering loop has completed: one every 33 ms
FrameMs == 33

FwdOthers == UNCHANGED <<encVars, netVars, pin, position, nvs>>

InitFwd ==
    /\ BusInit /\ PrefInit /\ HwInit /\ EncInit /\ LedInit /\ NetInit
    /\ core = [CoreMembers EXCEPT !.wifi = FALSE, !.webServer = FALSE]
    /\ corePc = "setup"
    /\ coreObs = NoCoreObs
    /\ uiTask = "update"

\* setup(): ledManager.init() before the Core calls
FwdLedInit ==
    /\ corePc = "setup" /\ ~ledObs.inited
    /\ LEDManagerInit(TRUE, Azure)
    /\ UNCHANGED <<busVars, coreVars, uiTask, now>> /\ FwdOthers
FwdStartUITask ==
    /\ ledObs.inited
    /\ startUITask(TRUE, TRUE)
    /\ UNCHANGED uiTask /\ FwdOthers
FwdInitialize == CoreInitialize /\ UNCHANGED uiTask /\ FwdOthers
FwdBoot == handleBootingState /\ UNCHANGED uiTask /\ FwdOthers
FwdCoreStart == CoreStart /\ UNCHANGED uiTask /\ FwdOthers
FwdCoreEvents == processEvents /\ UNCHANGED uiTask /\ FwdOthers
FwdCoreEvent == handleEncoderEvent /\ UNCHANGED uiTask /\ FwdOthers
FwdCoreSleep == CoreSleep(0) /\ UNCHANGED uiTask /\ FwdOthers

\* Core::runUITask: the part of an iteration at pc, which sends an event of
\* the type when the encoder reported one
FwdEmit(pc, type, next) ==
    /\ core.uiTaskHandle /\ uiTask = pc
    /\ \E reported \in BOOLEAN :
          IF reported
          THEN sendToMain(Event(type, NextSerial, ""), 0)
          ELSE UNCHANGED busVars
    /\ uiTask' = next
    /\ UNCHANGED <<ledVars, coreVars, now>>

FwdUpdate ==
    /\ core.uiTaskHandle /\ uiTask = "update"
    /\ uiTask' = "movement"
    /\ UNCHANGED <<busVars, ledVars, coreVars, now>> /\ FwdOthers
FwdMovement == FwdEmit("movement", "ENCODER_ROTATION", "click") /\ FwdOthers
FwdClick == FwdEmit("click", "ENCODER_CLICK", "long") /\ FwdOthers
FwdLongPress == FwdEmit("long", "ENCODER_LONG_PRESS", "display") /\ FwdOthers
FwdDisplay ==
    /\ uiTask = "display"
    /\ receiveFromMain(0)
    /\ uiTask' = IF busRet'.ok THEN "display" ELSE "delay"
    /\ UNCHANGED <<ledVars, coreVars, now>> /\ FwdOthers
FwdDelay ==
    /\ now + FrameMs <= MaxFrames * FrameMs
    /\ UiDelay(FrameMs)
    /\ UNCHANGED <<ledVars, coreVars>> /\ FwdOthers

NextFwd ==
    \/ FwdLedInit
    \/ FwdStartUITask
    \/ FwdInitialize
    \/ FwdBoot
    \/ FwdCoreStart
    \/ FwdCoreEvents
    \/ FwdCoreEvent
    \/ FwdCoreSleep
    \/ FwdUpdate
    \/ FwdMovement
    \/ FwdClick
    \/ FwdLongPress
    \/ FwdDisplay
    \/ FwdDelay

SpecFwd == InitFwd /\ [][NextFwd]_vars

(***************************************************************************)
(* Claims about the rendering loop.                                        *)
(***************************************************************************)
\* C9: every outcome the Input Classifier produces - rotation, click,
\* long-press, ultra-long-press - is consumed by the rendering loop: when an
\* iteration of the loop has made its calls, no outcome is left pending.
C9_OutcomesConsumed ==
    uiTask = "delay" =>
        /\ ~movementPending
        /\ ~clickPending
        /\ ~longPressPending
        /\ ~ultraLongPressPending

(***************************************************************************)
(* Claims about the System Coordinator.                                    *)
(***************************************************************************)
\* C5: every time Network State becomes Timeout, CredentialNotFound or Error,
\* the coordinator calls setupAP() in the first handleWiFiConnection that
\* follows; no occurrence is passed over.
C5_FallbackNextTick == coreObs.owed # "missed"

\* C10: setState(s) called while the System State is s changes neither the
\* state nor the state-entry timestamp.
C10_SetStateIdempotent ==
    [][coreObs'.setArg = core.currentState =>
          /\ core'.currentState = core.currentState
          /\ core'.stateStartTime = core.stateStartTime]_vars

\* initialize() has called setState(BOOTING) in state BOOTING at an uptime
\* later than the recorded state-entry timestamp
C10_Witness ==
    /\ coreObs.op = "initialize"
    /\ coreObs.setArg = "BOOTING"
    /\ core.currentState = "BOOTING"
    /\ now > core.stateStartTime

\* the lifecycle order of the System States; ERROR stands outside it
StateOrder(s) ==
    CASE s = "BOOTING" -> 0
      [] s = "INITIALIZING" -> 1
      [] s \in {"WIFI_CONNECTING", "WIFI_AP_MODE"} -> 2
      [] s = "READY" -> 3
      [] s = "RUNNING" -> 4
      [] OTHER -> -1

\* C11: the System State changes only forward along Booting, Initializing,
\* WifiConnecting / WifiApMode, Ready, Running: no change leads from a state
\* of this order to an earlier one, so Booting and Initializing are never
\* re-entered and Running is never followed by an earlier state.
C11_OneWay ==
    [][(StateOrder(core.currentState) >= 0 /\ StateOrder(core'.currentState) >= 0)
          => StateOrder(core'.currentState) >= StateOrder(core.currentState)]_vars

\* C12: Ready is transient: once handleWiFiConnection has entered Ready, the
\* same call of coordinationLoop moves on to Running, and the System State is
\* not Ready when the call reaches processEvents, returns, or is entered.
C12_ReadyTransient ==
    core.currentState = "READY" => corePc \in {"ap-client", "web", "start"}

\* start() has just moved Ready to Running in the tick that entered Ready
C12_Witness ==
    /\ coreObs.op = "start"
    /\ coreObs.setArg = "RUNNING"
    /\ core.currentState = "RUNNING"
    /\ core.stateStartTime = now

\* the steps of a coordinationLoop call that follow handleWiFiConnection
AfterHandle == corePc \in {"web", "start", "events", "event", "sleep"}

\* C14 (as amended): when Booting is left with no saved credentials, the
\* Network Manager reports CredentialNotFound and the same coordinationLoop
\* call runs setupAP(): at the end of that call the Network State is ApMode if
\* the access point started and Error if it did not; when it started, the
\* next call sets the System State to WifiApMode and starts the provisioning
\* server.
C14_ApModeOrError ==
    /\ (coreObs.boot = "cnf0" /\ corePc \in {"update", "handle"}) =>
          /\ wifi.currentState = "CREDENTIAL_NOT_FOUND"
          /\ core.currentState = "INITIALIZING"
    /\ (coreObs.boot = "cnf0" /\ corePc = "ap-done") =>
          wifi.currentState = "AP_MODE_INIT"
    /\ (coreObs.boot = "cnf0" /\ AfterHandle) =>
          wifi.currentState = IF radio.ap THEN "AP_MODE" ELSE "ERROR"
    /\ (coreObs.boot = "ap1" /\ (AfterHandle \/ corePc = "ap-client")) =>
          /\ core.currentState = "WIFI_AP_MODE"
          /\ core.serverRunning

\* the call after the one that left Booting without credentials has set
\* WifiApMode
C14_Witness ==
    /\ coreObs.boot = "ap1"
    /\ coreObs.op = "handle"
    /\ coreObs.setArg = "WIFI_AP_MODE"
    /\ wifi.currentState = "AP_MODE"

\* C14 (as stated): when Booting is left with no saved credentials,
\* access-point mode has been entered by the end of the coordinationLoop call
\* that follows the one of the Booting -> Initializing transition.
C14_ApWithinOneTick ==
    (coreObs.boot \in {"ap1", "err1"} /\ corePc = "sleep") =>
        \/ wifi.currentState = "AP_MODE"
        \/ core.currentState = "WIFI_AP_MODE"

C17_OneAttemptInFlight ==
    [][/\ netObs'.connects > netObs.connects => wifi.currentState # "CONNECTING"
       /\ wifi.currentState = "CONNECTING" =>
             wifi'.connectionStartTime = wifi.connectionStartTime]_vars

\* a submission to the provisioning server has started the second attempt,
\* after the first one timed out
C17_Witness ==
    /\ coreObs.op = "web"
    /\ netObs.op = "connect"
    /\ netObs.connects = 2
    /\ wifi.currentState = "CONNECTING"
    /\ wifi.connectionStartTime = now

\* the coordinator's setup has run and coordinationLoop is being called
Looping == corePc \notin {"setup", "setup-init"}

C4_TimeoutIff ==
    [][netObs'.op = "update" =>
        LET inCall == wifiCall = "update"
            st == IF inCall THEN netObs.readState ELSE wifi.currentState
            at == IF inCall THEN netObs.readAt ELSE now
            late == at - netObs.connectAt > netObs.connectTimeout
        IN IF st = "CONNECTING"
           THEN /\ (wifi'.currentState = "TIMEOUT") <=> late
                /\ ~late => wifi' = wifi
           ELSE wifi' = wifi]_vars

\* an update() has just turned an attempt that ran past its timeout into Timeout
C4_Witness ==
    /\ netObs.op = "update"
    /\ wifi.currentState = "TIMEOUT"
    /\ netObs.connects > 0
    /\ now - netObs.connectAt > netObs.connectTimeout

\* the attempt in progress has run past its timeout
AttemptOverdue ==
    /\ wifi.currentState = "CONNECTING"
    /\ now - netObs.connectAt > netObs.connectTimeout

\* C15 (as amended): an update() made while an attempt has run past its
\* timeout sets the Network State to Timeout; a setupAP() sets ApModeInit,
\* then ApMode if the access point started and Error if it did not, and the
\* access point's address is 192.168.4.1.
C15_TimeoutThenAp ==
    [][/\ (wifiCall = "none" /\ netObs'.op \in {"update", "update-read"}
            /\ AttemptOverdue) => wifiCall' = "update"
       /\ (wifiCall = "update" /\ netObs'.op = "update") =>
             wifi'.currentState = "TIMEOUT"
       /\ netObs'.op = "setupAP" => wifi'.currentState = "AP_MODE_INIT"
       /\ netObs'.op = "setupAP-done" =>
             /\ wifi'.currentState = IF radio'.ap THEN "AP_MODE" ELSE "ERROR"
             /\ radio'.ap => getAPIP = "192.168.4.1"]_vars

\* a setupAP() called in Timeout has brought the access point up
C15_Witness ==
    /\ netObs.op = "setupAP-done"
    /\ netObs.apFrom = "TIMEOUT"
    /\ netObs.connects > 0
    /\ wifi.currentState = "AP_MODE"
    /\ radio.ap

\* C15 (as stated): a setupAP() that follows a Timeout yields ApMode, with
\* the access-point address 192.168.4.1.
C15_SetupApYieldsApMode ==
    (netObs.op = "setupAP-done" /\ netObs.apFrom = "TIMEOUT") =>
        /\ wifi.currentState = "AP_MODE"
        /\ getAPIP = "192.168.4.1"

\* C18: the Network State becomes Connected only by the got-IP handler, and
\* when it does the credentials have already been persisted; the handler then
\* ends with the call that starts the time synchronisation.
C18_SavedBeforeConnected ==
    [][/\ (wifi.currentState # "CONNECTED" /\ wifi'.currentState = "CONNECTED") =>
             /\ netObs'.op = "got-ip-set"
             /\ radio.handler = "got-ip-saved"
             /\ radio.saved
       /\ (radio.handler = "got-ip-set" /\ radio'.handler # "got-ip-set") =>
             /\ netObs'.op = "got-ip-ntp"
             /\ radio'.ntp # "none"
             /\ radio'.handler = "none"]_vars

\* a got-IP handler has run to its end: credentials persisted, Connected,
\* time synchronisation configured
C18_Witness ==
    /\ netObs.op = "got-ip-ntp"
    /\ wifi.currentState = "CONNECTED"
    /\ radio.saved
    /\ radio.ntp = "configured"

(***************************************************************************)
(* Claims about the LED Animation Scheduler.                               *)
(***************************************************************************)
TickDone == ledTask.running /\ ledTask.pc = "delay"

PriorityLaw(a, ran) ==
    /\ (ran = "fade") <=> a.fading
    /\ (ran = "flash") <=> (~a.fading /\ a.flash)
    /\ (ran = "loading") <=> (~a.fading /\ ~a.flash /\ a.loading)
    /\ (ran = "init") <=>
          (~a.fading /\ ~a.flash /\ ~a.loading /\ ~a.initAnimationCompleted)
    /\ (ran = "pulsating") <=>
          (~a.fading /\ ~a.flash /\ ~a.loading /\ a.initAnimationCompleted
             /\ a.pulsating)
    /\ (ran \in {"dim", "none"}) <=>
          (~a.fading /\ ~a.flash /\ ~a.loading /\ a.initAnimationCompleted
             /\ ~a.pulsating)

\* C3 (as amended): in every LED scheduler tick at most one animation is
\* advanced, the highest-priority active one in the order fade > flash >
\* loading > boot sweep > pulsation; the inactivity timer is evaluated only
\* when none of these is active, and until it expires the tick advances
\* nothing and leaves the scheduler's state as it was.
C3_PriorityOrder ==
    TickDone =>
        /\ PriorityLaw(ledObs.at, ledObs.ran)
        /\ ledObs.ran = "none" => led = ledObs.at

\* a tick in which the flash is advanced although the loading indicator and
\* the boot sweep are active too
C3_Witness ==
    /\ TickDone
    /\ ledObs.ran = "flash"
    /\ ledObs.at.loading
    /\ ~ledObs.at.initAnimationCompleted

\* C3 (as stated): every tick advances exactly one animation, chosen by the
\* priority order.
C3_ExactlyOne ==
    TickDone =>
        /\ PriorityLaw(ledObs.at, ledObs.ran)
        /\ ledObs.ran # "none"

\* C21: once the animation task is running, a public mutator called from
\* another context only enqueues its command (or drops it when the channel is
\* full) and leaves the members of the LED manager as they are; the members
\* change only in steps of the animation task itself.
C21_SingleWriter ==
    [][ledTask.running =>
          /\ ledObs'.sent # ledObs.sent =>
                /\ led' = led
                /\ \/ ledEventQueue' = ledEventQueue
                   \/ /\ Len(ledEventQueue'.items) = Len(ledEventQueue.items) + 1
                      /\ SubSeq(ledEventQueue'.items, 1, Len(ledEventQueue.items))
                            = ledEventQueue.items
          /\ led' # led =>
                /\ ledTask.pc = "events"
                /\ ledObs'.sent = ledObs.sent
                /\ \/ Len(ledEventQueue'.items) = Len(ledEventQueue.items) - 1
                   \/ ledTask'.pc = "delay"]_vars

\* a loading command waits in the channel of the running task, not yet applied
C21_Witness ==
    /\ ledTask.running
    /\ Len(ledEventQueue.items) > 0
    /\ Head(ledEventQueue.items).type = "SET_LOADING"
    /\ Head(ledEventQueue.items).state
    /\ ~led.loading

\* C19: while a flash is active, SetLoading commands processed since its
\* FlashColor command change neither the colour nor the brightness the LEDs
\* show, and the flash does not end before its duration has elapsed.
C19_FlashUnaffectedByLoading ==
    [][/\ (ledObs'.sinceFlash = "loading" /\ led'.flash) =>
             led'.shown = ledObs'.flashShown
       /\ (ledObs.sinceFlash = "loading" /\ led.flash /\ ~led'.flash) =>
             now - led.lastFlashStarted >= led.flashDuration]_vars

\* C20: whatever commands were sent, every scheduler tick entered at an
\* uptime above 4000 ms leaves the boot animation marked completed, so the
\* boot sweep never stays incomplete past its 4-second timeout.
C20_BootSweepBounded ==
    [][(ledTask.pc = "events" /\ ledTask'.pc = "delay" /\ now > 4000) =>
          led'.initAnimationCompleted]_vars

(***************************************************************************)
(* Claims about the Input Classifier.                                      *)
(***************************************************************************)
\* an update() that detected a release (only update() writes lastButtonState)
ReleaseStep == lastButtonState = "LOW" /\ lastButtonState' = "HIGH"

\* C6: on a release with press duration d the classifier raises exactly the
\* click flag if d < 500, the long-press flag if 1000 <= d < 3000, the
\* ultra-long-press outcome if d >= 3000, and nothing if 500 <= d < 1000.
C6_Classification ==
    [][ReleaseStep =>
        LET d == Elapsed(now, pressStartTime) IN
        /\ d < 500 =>
              /\ clickPending'
              /\ UNCHANGED <<longPressPending, ultraLongPressPending>>
              /\ tally'.click = tally.click + 1
        /\ (500 <= d /\ d < 1000) =>
              /\ UNCHANGED <<clickPending, longPressPending, ultraLongPressPending>>
              /\ UNCHANGED tally
        /\ (1000 <= d /\ d < 3000) =>
              /\ longPressPending'
              /\ UNCHANGED <<clickPending, ultraLongPressPending>>
              /\ tally'.long = tally.long + 1
        /\ d >= 3000 =>
              /\ UNCHANGED <<clickPending, longPressPending>>
              /\ ultraLongPressNotified'
              /\ ultraLongPressPending' = (ultraLongPressPending \/ ~ultraLongPressNotified)
    ]_vars

\* a release after exactly 1000 ms raised the long-press flag, after an
\* earlier press had been classified as a click
C6_Witness ==
    /\ encRet.op = "update"
    /\ encRet.edge = "release"
    /\ encRet.duration = 1000
    /\ longPressPending
    /\ tally.click = 1

\* C7: a press held 3000 ms or longer raises the ultra-long-press flag at the
\* first update() that sees the button down with a held time >= 3000, raises
\* it once (not again on release, even after the flag was consumed), and
\* raises neither click nor long-press.
C7_UltraLongOnce ==
    /\ [](press.ultra <= 1)
    /\ [](press.ultra = 1 => press.click = 0 /\ press.long = 0)
    /\ [][(/\ encRet'.op = "update"
           /\ encRet'.held
           /\ Elapsed(now, pressStartTime') >= 3000)
          => /\ press'.ultra = 1
             /\ ultraLongPressNotified'
             /\ (press.ultra = 0 \/ encRet'.edge = "press" => ultraLongPressPending')]_vars
    /\ [][(press'.ultra = 1 /\ (press.ultra = 0 \/ encRet'.edge = "press"))
          => Elapsed(now, pressStartTime') >= 3000]_vars

\* the flag was raised while the button was held, consumed during the hold,
\* and the release (duration >= 3000) did not raise it again
C7_Witness ==
    /\ encRet.op = "update"
    /\ encRet.edge = "release"
    /\ encRet.duration >= 3000
    /\ press.ultra = 1
    /\ tally.gotUltra = 1
    /\ ~ultraLongPressPending

\* C8: each classified outcome is observed exactly once by its consuming
\* accessor: whatever has been classified is either still pending or has been
\* returned once, for any interleaving of update() and the accessors.
C8_ObservedExactlyOnce ==
    /\ tally.gotClick + (IF clickPending THEN 1 ELSE 0) = tally.click
    /\ tally.gotLong + (IF longPressPending THEN 1 ELSE 0) = tally.long
    /\ tally.gotUltra + (IF ultraLongPressPending THEN 1 ELSE 0) = tally.ultra

(***************************************************************************)
(* Claims about the Event Bus.                                             *)
(***************************************************************************)
\* C1: each of the two queues holds at most 10 events after any sequence of
\* sends and receives, and a send with timeout 0 to a queue that already
\* holds 10 events returns false without suspending the caller.
C1_Capacity ==
    /\ Len(uiToMainQueue.items) <= 10
    /\ Len(mainToUIQueue.items) <= 10
    /\ (/\ busRet.op \in {"sendToUI", "sendToMain"}
        /\ busRet.timeout = 0
        /\ busRet.len >= 10)
       => (~busRet.ok /\ ~busRet.blocked)

\* a poll-send to the full Core -> UI queue was rejected while the other
\* queue is full as well
C1_Witness ==
    /\ busRet.op = "sendToUI"
    /\ busRet.timeout = 0
    /\ busRet.len = 10
    /\ ~busRet.ok
    /\ Len(mainToUIQueue.items) = 10
    /\ Len(uiToMainQueue.items) = 10

\* C2: within one direction events are received in the order their sends
\* succeeded, each equal in type, value and text to the event sent; none is
\* delivered twice, none is invented and none that waits is withheld.
C2_Fifo ==
    /\ uiToMainQueue.items = pendMain
    /\ mainToUIQueue.items = pendUI
    /\ busRet.op \in {"receiveFromMain", "receiveFromUI"} =>
          /\ busRet.event = busRet.expected
          /\ busRet.ok <=> busRet.expected # NoEvent

\* the marked event was received from the UI -> Core queue after the events
\* sent before it, with events sent after it still queued behind it
C2_Witness ==
    /\ busRet.op = "receiveFromUI"
    /\ busRet.ok
    /\ busRet.event = MarkedEvent
    /\ busRet.len >= 3
    /\ Len(mainToUIQueue.items) >= 2

\* C22: no two execution contexts are inside an open store session (between
\* begin/beginBatch and the matching end/endBatch) at the same time, whichever
\* PreferencesManager instances they use.
InStoreSession(c) == nvs.ctx[c].at = "session" \/ nvs.ctx[c].batches > 0

C22_StoreExclusive == Cardinality({c \in PrefContexts : InStoreSession(c)}) <= 1

\* C23: beginBatch() by the context that already holds an open batch returns
\* true without blocking and raises the depth by one; the store is closed and
\* the lock released only by the endBatch() that matches the outermost
\* beginBatch(); after balanced calls the batch is closed, the depth 0 and the
\* lock free.
C23_BatchesNest ==
    /\ [][\A c \in PrefContexts : \A i \in PrefInstances :
            /\ ( /\ nvs'.op.name = "beginBatch" /\ nvs'.op.ctx = c /\ nvs'.op.inst = i
                 /\ nvs.ctx[c].batches > 0 /\ nvs.ctx[c].on = i /\ nvs.inst[i].batchOpen )
               => /\ nvs'.op.ret
                  /\ nvs'.ctx[c].at = "idle"
                  /\ nvs'.inst[i].batchDepth = nvs.inst[i].batchDepth + 1
            /\ (nvs.inst[i].batchOpen /\ ~nvs'.inst[i].batchOpen)
               => nvs'.op.name = "endBatch" /\ nvs.inst[i].batchDepth = 1
         ]_vars
    /\ [](\A i \in PrefInstances :
            (\A c \in PrefContexts : nvs.ctx[c] = IdleContext)
               => /\ ~nvs.inst[i].batchOpen
                  /\ nvs.inst[i].batchDepth = 0
                  /\ nvs.inst[i].nvsMutex \in {"NULL", "free"})

\* C24: a send that is rejected because its target queue is full drops the new
\* event only: the contents and the order of both queues are as before.
C24_FullSendDropsNewOnly ==
    [][( /\ busRet'.op \in {"sendToUI", "sendToMain"}
         /\ initialized
         /\ ~busRet'.ok
         /\ busRet'.len = QUEUE_SIZE )
       => /\ uiToMainQueue' = uiToMainQueue
          /\ mainToUIQueue' = mainToUIQueue
          /\ getUIQueueCount' = getUIQueueCount
          /\ getMainQueueCount' = getMainQueueCount]_vars

\* a send to the full Core -> UI queue was rejected while the other queue
\* holds events too
C24_Witness ==
    /\ busRet.op = "sendToUI" /\ ~busRet.ok /\ busRet.len = QUEUE_SIZE
    /\ Len(mainToUIQueue.items) = QUEUE_SIZE
    /\ Len(uiToMainQueue.items) > 0

\* C25: until initialize() has completed with success, sendToUI, sendToMain,
\* receiveFromMain and receiveFromUI return false and change no state of the
\* Event Bus, and both queue counts report 0.
C25_UninitializedFails ==
    /\ [][( /\ ~initialized
            /\ busRet'.op \in {"sendToUI", "sendToMain", "receiveFromMain", "receiveFromUI"} )
          => /\ ~busRet'.ok
             /\ ~busRet'.blocked
             /\ UNCHANGED <<initialized, uiToMainQueue, mainToUIQueue, pendMain, pendUI>>]_vars
    /\ [](~initialized => getUIQueueCount = 0 /\ getMainQueueCount = 0)

\* a send with a timeout has failed on the bus that is not initialized
C25_Witness ==
    /\ ~initialized
    /\ busRet.op = "sendToMain" /\ ~busRet.ok /\ busRet.timeout > 0

\* C26: after update() has detected a rotation while no movement was pending,
\* the first of two getMovement() calls with no turn of the knob in between
\* returns a non-zero total and the second returns zero.
C26_NonZeroThenZero == tally.rot \notin {"firstZero", "secondNonZero"}

\* both calls were made after one detection: non-zero, then zero
C26_Witness ==
    /\ tally.rot = "done"
    /\ encRet.op = "getMovement" /\ encRet.value = 0

\* C26 as stated: after any rotation detected by update(), two successive
\* getMovement() calls with no rotation in between return non-zero, then zero.
C26_AnyDetection == tally.rot \notin {"firstZero", "firstZeroMore", "secondNonZero"}

\* C27: a pending click, long-press or ultra-long-press flag stays pending
\* through update() calls, later presses and the passage of time; only its own
\* consuming accessor clears it.
C27_PendingUntilConsumed ==
    [][ /\ (clickPending /\ ~clickPending') => encRet'.op = "getClicked"
        /\ (longPressPending /\ ~longPressPending') => encRet'.op = "getLongPressed"
        /\ (ultraLongPressPending /\ ~ultraLongPressPending')
              => encRet'.op = "getUltraLongPressed" ]_vars

\* a click is still pending after a later press was held and classified as a
\* long press, itself pending too
C27_Witness ==
    /\ clickPending /\ longPressPending
    /\ tally.click = 1 /\ tally.long = 1 /\ tally.gotClick = 0
    /\ encRet.op = "update"
    /\ lastPressDuration >= LONG_PRESS_DURATION

\* C28: when init() could not create the LED command channel, every LED
\* command is rejected without effect and the animation task never performs a
\* receive on the channel that does not exist, so that the firmware keeps
\* running.
C28_InertWithoutChannel ==
    /\ [][(~ledEventQueue.created /\ ledObs'.sent # ledObs.sent)
             => led' = led /\ ledEventQueue' = ledEventQueue]_vars
    /\ []((ledObs.inited /\ ~ledEventQueue.created) => ledTask.pc # "fault")

\* C29: under every interleaving of the WiFi stack's got-IP notification with
\* the coordinator's timeout check, a Network State that the notification has
\* set to CONNECTED is never overwritten with TIMEOUT by a timeout check that
\* read the state before the notification.
C29_ConnectedNotOverwritten ==
    [][~( /\ wifiCall = "update"
          /\ netObs.readState = "CONNECTING"
          /\ wifi.currentState = "CONNECTED"
          /\ wifi'.currentState = "TIMEOUT" )]_vars

\* C30: with the network required and a Network Manager registered, under fair
\* ticking the coordinator that has left BOOTING eventually reaches RUNNING or
\* WIFI_AP_MODE, and it never stays for ever in INITIALIZING or in
\* WIFI_CONNECTING, whatever the outcome of the connection attempt or of
\* starting the access point.
C30_BootLeadsToService ==
    /\ (core.wifi /\ core.currentState = "INITIALIZING")
          ~> (core.currentState \in {"RUNNING", "WIFI_AP_MODE"})
    /\ (core.wifi /\ core.currentState = "WIFI_CONNECTING")
          ~> (core.currentState \notin {"INITIALIZING", "WIFI_CONNECTING"})

\* C31: a disconnect notification of the WiFi stack changes the Network State
\* (to DISCONNECTED) only when the state was CONNECTED; in CONNECTING, in
\* AP_MODE_INIT, AP_MODE, TIMEOUT and CREDENTIAL_NOT_FOUND it leaves the state
\* as it was, so that a late notification never takes the device out of
\* access-point mode.
C31_DisconnectOnlyFromConnected ==
    [][OnStaDisconnected =>
          /\ wifi'.currentState # wifi.currentState
                => wifi.currentState = "CONNECTED" /\ wifi'.currentState = "DISCONNECTED"
          /\ wifi.currentState \in {"CONNECTING", "AP_MODE_INIT", "AP_MODE",
                                    "TIMEOUT", "CREDENTIAL_NOT_FOUND"}
                => wifi'.currentState = wifi.currentState]_vars

\* the LED state once the animation task has applied the queued commands es
RECURSIVE LedAfter(_, _)
LedAfter(L, es) ==
    IF es = <<>> THEN L ELSE LedAfter(applyLEDEvent(L, now, Head(es)), Tail(es))

\* C32: every SET_LOADING(on) the coordinator queues when a connection attempt
\* starts is followed by a SET_LOADING(off) when the attempt ends, in CONNECTED
\* or in TIMEOUT with the access-point fallback: whenever the System State is
\* WIFI_AP_MODE or RUNNING and no command was lost to a full queue, the
\* commands queued so far leave the LED loading flag off.
C32_LoadingCleared ==
    ( /\ core.currentState \in {"WIFI_AP_MODE", "RUNNING"}
      /\ ledEventQueue.created
      /\ Len(ledEventQueue.items) < LED_QUEUE_SIZE )
       => ~LedAfter(led, ledEventQueue.items).loading

\* C33: once the System State is ERROR (set by startUITask when the rendering
\* task cannot be created) no later operation - initialize(), start(),
\* coordinationLoop() - moves it out of ERROR.
C33_ErrorIsFinal ==
    [][core.currentState = "ERROR" => core'.currentState = "ERROR"]_vars

\* the LED command the claim names for an encoder event
IsFeedbackFor(cmd, ev) ==
    CASE ev.type = "ENCODER_ROTATION" -> cmd.type = "ACTIVATE"
      [] ev.type = "ENCODER_CLICK" -> cmd.type = "FLASH_COLOR" /\ cmd.rgb = Green
      [] ev.type = "ENCODER_LONG_PRESS" -> cmd.type = "FLASH_COLOR" /\ cmd.rgb = FlashOrange
      [] OTHER -> FALSE

PendingMovement == IF movementPending THEN movement ELSE 0

\* C35 (as amended): rotation is conserved.  After any sequence of update() and
\* getMovement() calls, the sum of the values getMovement() returned plus the
\* movement still pending equals (the hardware count the last update() sampled
\* / 4) minus (the hardware count at init / 4), with the code's integer
\* division; update() samples the count of the moment it is called.
C35_ConservedAsSampled ==
    /\ [](encRet.op # "none"
            => /\ tally.returned + PendingMovement = lastValue - tally.base
               /\ movementPending \/ movement = 0)
    /\ [][update => lastValue' = TruncDiv(position, 4)]_vars

C35_Witness ==
    /\ encRet.op = "update"
    /\ tally.returned # 0
    /\ movementPending /\ movement # 0
    /\ lastValue # tally.returned

\* C35 (as stated): after any sequence of update() and getMovement() calls the
\* sum of the values returned plus the pending movement equals (the current
\* hardware count / 4) minus (the hardware count at init / 4).
C35_ConservedCurrentCount ==
    encRet.op \in {"update", "getMovement"}
       => tally.returned + PendingMovement = TruncDiv(position, 4) - tally.base

\* C36: in every reachable state, a failed creation of either queue and every
\* interleaving of initialize() with the sends and receives of a rendering
\* task started before it included, initialized implies that both queues
\* exist, an initialize() that has failed leaves no queue allocated, and no
\* send or receive touches a queue that has not been created: it fails, and
\* a queue that does not exist never holds an event.
C36_InitializedMeansQueues ==
    /\ [](initialized => uiToMainQueue.created /\ mainToUIQueue.created)
    /\ []((busRet.op = "initialize" /\ ~busRet.ok)
            => ~uiToMainQueue.created /\ ~mainToUIQueue.created)
    /\ []( /\ ~uiToMainQueue.created => uiToMainQueue.items = <<>>
           /\ ~mainToUIQueue.created => mainToUIQueue.items = <<>> )
    /\ [][ /\ (busRet'.op \in {"sendToUI", "receiveFromMain"} /\ ~mainToUIQueue.created)
                => ~busRet'.ok /\ mainToUIQueue' = mainToUIQueue
           /\ (busRet'.op \in {"sendToMain", "receiveFromUI"} /\ ~uiToMainQueue.created)
                => ~busRet'.ok /\ uiToMainQueue' = uiToMainQueue ]_vars

C36_Witness ==
    /\ busRet.op = "sendToMain" /\ ~busRet.ok
    /\ uiToMainQueue.created /\ ~mainToUIQueue.created
    /\ ~initialized

IdleTick ==
    /\ ledTask.pc = "events" /\ ledTask'.pc = "delay"
    /\ whichAnimation(led) = "idle"

DimOrPulse ==
    IF led.currentBrightness > 10
    THEN /\ led'.fading /\ led'.targetBrightness = 10 /\ led'.fadeDuration = 1000
         /\ led'.startBrightness = led.currentBrightness
         /\ ~led'.pulsating
    ELSE led'.pulsating /\ ~led'.fading

ActivateStep ==
    /\ ledTask.pc = "events" /\ Len(ledEventQueue.items) > 0
    /\ Head(ledEventQueue.items).type = "ACTIVATE"
    /\ ledEventQueue'.items = Tail(ledEventQueue.items)

ActivateRestarts ==
    ActivateStep => /\ ~led'.pulsating
                    /\ ~led.loading => led'.lastEncMovementTime = now

C38_IdleDimSinceActivate ==
    [][/\ (IdleTick /\ now - ledObs.activated >= IDLE_DELAY_SECONDS * 1000) => DimOrPulse
       /\ ActivateRestarts]_vars

C38_IdleDimSinceTouched ==
    [][/\ (IdleTick /\ now - ledObs.touched >= IDLE_DELAY_SECONDS * 1000) => DimOrPulse
       /\ ActivateRestarts]_vars

C38_Witness ==
    /\ ledObs.ran = "dim" /\ ledTask.pc = "delay"
    /\ ledObs.activated > 0
    /\ led.fading /\ led.targetBrightness = 10

(***************************************************************************)
(* C39.  A fade runs for its duration measured from its request.  At a     *)
(* tick that runs the fade handler, while no more than the requested       *)
(* duration has passed since the last call of fadeToBrightness the fade    *)
(* stays on and the brightness shown lies between the captured start       *)
(* brightness and the target; at the first tick past the duration the      *)
(* fade flag is cleared and the current brightness is the target.          *)
(***************************************************************************)
FadeTick ==
    /\ ledTask.pc = "events" /\ ledTask'.pc = "delay"
    /\ whichAnimation(led) = "fade"

Between(x, a, b) == (a <= x /\ x <= b) \/ (b <= x /\ x <= a)

C39_FadeRunsFromRequest ==
    [][FadeTick =>
         IF now - ledObs.fadeAt <= led.fadeDuration
         THEN /\ led'.fading
              /\ Between(led'.shown.brightness, led.startBrightness, led.targetBrightness)
         ELSE /\ ~led'.fading
              /\ led'.currentBrightness = led.targetBrightness]_vars

(***************************************************************************)
(* C40.  Lock balance of the persistent store: whatever the order of the  *)
(* calls, no call gives the storage mutex of an instance while its context *)
(* does not hold it, and a context that has returned from its call and     *)
(* holds no batch holds no storage mutex.                                  *)
(***************************************************************************)
C40_LockBalanced ==
    /\ ~nvs.unowned
    /\ \A c \in PrefContexts : \A i \in PrefInstances :
          nvs.ctx[c] = IdleContext => nvs.inst[i].nvsMutex # c

====
